---- MODULE Spec2Model ----
(***************************************************************************)
(* Plinko X: the provably fair outcome engine of mathematics.js            *)
(* (CryptoEngine.sha256, FairGameEngine, PayTables, ProbabilityEngine).    *)
(*                                                                         *)
(* Strings are sequences of character codes.  A 32-bit word is a pair      *)
(* <<hi, lo>> of 16-bit halves: JavaScript's `| 0` and its bitwise         *)
(* operators work modulo 2^32, and the halves keep that width exactly.     *)
(***************************************************************************)
EXTENDS Integers, Sequences, FiniteSets, TLC

(* ------------------------------------------------------------------ *)
(* 32-bit word arithmetic                                             *)
(* ------------------------------------------------------------------ *)

Pow2 == <<1, 2, 4, 8, 16, 32, 64, 128, 256, 512, 1024, 2048, 4096, 8192,
          16384, 32768, 65536>>

\* 2^n for n in 0..16
P2(n) == Pow2[n + 1]

\* a ^ b, a & b and a | b for 4-bit a and b, bit by bit
XorBits(a, b) ==
    ((a + b) % 2) + 2 * (((a \div 2) + (b \div 2)) % 2)
    + 4 * (((a \div 4) + (b \div 4)) % 2) + 8 * (((a \div 8) + (b \div 8)) % 2)

AndBits(a, b) ==
    ((a % 2) * (b % 2)) + 2 * (((a \div 2) % 2) * ((b \div 2) % 2))
    + 4 * (((a \div 4) % 2) * ((b \div 4) % 2)) + 8 * ((a \div 8) * (b \div 8))

OrBits(a, b) == (a + b) - AndBits(a, b)

XorNib == [a \in 0..15 |-> [b \in 0..15 |-> XorBits(a, b)]]
AndNib == [a \in 0..15 |-> [b \in 0..15 |-> AndBits(a, b)]]
OrNib == [a \in 0..15 |-> [b \in 0..15 |-> OrBits(a, b)]]

\* a nibble table applied to two 16-bit halves
Half(T, a, b) ==
    T[a % 16][b % 16]
    + 16 * T[(a \div 16) % 16][(b \div 16) % 16]
    + 256 * T[(a \div 256) % 16][(b \div 256) % 16]
    + 4096 * T[a \div 4096][b \div 4096]

\* x ^ y
XorW(x, y) == <<Half(XorNib, x[1], y[1]), Half(XorNib, x[2], y[2])>>
\* x & y
AndW(x, y) == <<Half(AndNib, x[1], y[1]), Half(AndNib, x[2], y[2])>>
\* x | y
OrW(x, y) == <<Half(OrNib, x[1], y[1]), Half(OrNib, x[2], y[2])>>
\* ~x
NotW(x) == <<65535 - x[1], 65535 - x[2]>>

\* x >>> n, 0 < n < 32
Shr(n, x) ==
    IF n >= 16 THEN <<0, x[1] \div P2(n - 16)>>
    ELSE <<x[1] \div P2(n), (x[2] \div P2(n)) + (x[1] % P2(n)) * P2(16 - n)>>

\* x << n truncated to 32 bits, 0 < n < 32
Shl(n, x) ==
    IF n >= 16 THEN <<(x[2] * P2(n - 16)) % 65536, 0>>
    ELSE <<((x[1] * P2(n)) % 65536) + (x[2] \div P2(16 - n)), (x[2] * P2(n)) % 65536>>

\* (x + y) | 0
AddW(x, y) ==
    LET lo == x[2] + y[2]
        hi == x[1] + y[1] + (lo \div 65536)
    IN <<hi % 65536, lo % 65536>>

\* CryptoEngine.rotr(n, x)
rotr(n, x) == OrW(Shr(n, x), Shl(32 - n, x))

(* ------------------------------------------------------------------ *)
(* CryptoEngine.sha256                                                *)
(* ------------------------------------------------------------------ *)

\* what sha256 returns for an input it does not hash: no text (no character
\* has a negative code)
undefined == <<0 - 2>>

\* (Math.pow(candidate, .5) * maxWord) | 0 for the 64 primes below 313, in order
PowHalfWord ==
    <<
       <<27145, 58983>>, <<47975, 44677>>, <<15470, 62322>>, <<42319, 62778>>,
       <<20750, 21119>>, <<39685, 26764>>, <<8067, 55723>>, <<23520, 52505>>,
       <<52155, 40285>>, <<25242, 10538>>, <<37209, 346>>, <<5423, 60632>>,
       <<26419, 9831>>, <<36532, 19079>>, <<56076, 11789>>, <<18357, 18461>>,
       <<44639, 37206>>, <<53100, 34259>>, <<12147, 18301>>, <<27928, 9930>>,
       <<35651, 54359>>, <<58208, 46486>>, <<7237, 24578>>, <<28441, 25393>>,
       <<55630, 48817>>, <<3268, 42513>>, <<9757, 49650>>, <<22549, 42942>>,
       <<28855, 60775>>, <<41297, 15465>>, <<17657, 13877>>, <<29197, 52733>>,
       <<46183, 13982>>, <<51762, 2933>>, <<13536, 54318>>, <<18887, 55741>>,
       <<34731, 47602>>, <<50275, 41724>>, <<60479, 50163>>, <<10023, 32621>>,
       <<24843, 60402>>, <<29728, 46238>>, <<53757, 35379>>, <<58487, 13716>>,
       <<2337, 38902>>, <<6995, 3221>>, <<34461, 25410>>, <<61157, 11855>>,
       <<4359, 26249>>, <<8699, 41851>>, <<17323, 40886>>, <<30121, 63773>>,
       <<34352, 20505>>, <<55245, 33139>>, <<2046, 255>>, <<14239, 20799>>,
       <<26294, 20904>>, <<30282, 47170>>, <<42160, 27617>>, <<50007, 35861>>,
       <<53910, 10835>>, <<7683, 40768>>, <<34171, 31726>>, <<41627, 62174>>
    >>

\* (Math.pow(candidate, 1 / 3) * maxWord) | 0 for the 64 primes below 313, in order
PowThirdWord ==
    <<
       <<17034, 12184>>, <<28983, 17553>>, <<46528, 64463>>, <<59829, 56229>>,
       <<14678, 49755>>, <<23025, 4593>>, <<37439, 33444>>, <<43804, 24277>>,
       <<55303, 43672>>, <<4739, 23297>>, <<9265, 34238>>, <<21772, 32195>>,
       <<29374, 23924>>, <<32990, 45566>>, <<39900, 1703>>, <<49563, 61812>>,
       <<58523, 27073>>, <<61374, 18310>>, <<4033, 40390>>, <<9228, 41420>>,
       <<11753, 11375>>, <<19060, 33962>>, <<23728, 43484>>, <<30457, 35034>>,
       <<38974, 20818>>, <<43057, 50797>>, <<45059, 10184>>, <<48985, 32711>>,
       <<50912, 3059>>, <<54695, 37191>>, <<1738, 25425>>, <<5161, 10599>>,
       <<10167, 2693>>, <<11803, 8504>>, <<19756, 28156>>, <<21304, 3347>>,
       <<25866, 29524>>, <<30314, 2747>>, <<33218, 51502>>, <<37490, 11397>>,
       <<41663, 59553>>, <<43034, 26187>>, <<49739, 35696>>, <<51052, 20899>>,
       <<53650, 59417>>, <<54937, 1572>>, <<62478, 13701>>, <<4202, 41072>>,
       <<6564, 49430>>, <<7735, 27656>>, <<10056, 30540>>, <<13488, 48309>>,
       <<14620, 3251>>, <<20184, 43594>>, <<23452, 51791>>, <<26670, 28659>>,
       <<29839, 33518>>, <<30885, 25455>>, <<33992, 30740>>, <<36039, 520>>,
       <<37054, 65530>>, <<42064, 27883>>, <<48889, 41975>>, <<50801, 30962>>
    >>

\* the candidates the prime loop does not skip.  Each unmarked candidate marks
\* all its multiples below 313 (for (i = 0; i < 313; i += candidate)
\* isComposite[i] = candidate), so a candidate is still unmarked when the loop
\* reaches it exactly when no smaller candidate above 1 divides it
Unmarked == {c \in 2..312 : \A d \in 2..(c - 1) : c % d # 0}

\* the unmarked candidates in the order the loop meets them
Candidates ==
    [n \in 1..Cardinality(Unmarked) |->
        CHOOSE c \in Unmarked : Cardinality({d \in Unmarked : d <= c}) = n]

\* the place of an unmarked candidate in that order
Rank == [c \in Unmarked |-> Cardinality({d \in Unmarked : d <= c})]

\* (Math.pow(candidate, .5) * maxWord) | 0
PowHalf(candidate) == PowHalfWord[Rank[candidate]]

\* (Math.pow(candidate, 1 / 3) * maxWord) | 0
PowThird(candidate) == PowThirdWord[Rank[candidate]]

\* the cached tables sha256.h and sha256.k after the prime loop: with
\* primeCounter = k.length below 64, candidate number n sets
\* hash[primeCounter] and k[primeCounter++], until k holds 64 constants
Tables(h, k) ==
    IF Len(k) >= 64 THEN [h |-> h, k |-> k]
    ELSE [h |-> [n \in 1..64 |->
                   IF n <= Len(k)
                   THEN (IF n <= Len(h) THEN h[n] ELSE <<0, 0>>)
                   ELSE PowHalf(Candidates[n - Len(k)])],
          k |-> [n \in 1..64 |->
                   IF n <= Len(k) THEN k[n] ELSE PowThird(Candidates[n - Len(k)])]]

\* a % b as JavaScript computes it: the sign of the result is the sign of a
JsRem(a, b) == IF a >= 0 THEN a % b ELSE 0 - ((0 - a) % b)

\* the count a JavaScript shift really uses: its low five bits
ShiftCount(s) == s % 32

\* ascii += '\x80'; while (ascii.length % 64 - 56) ascii += '\x00':
\* zeros are appended until the length is 56 modulo 64
Pad(ascii) ==
    LET zeros == (56 - (Len(ascii) + 1)) % 64
    IN (ascii \o <<128>>) \o [i \in 1..zeros |-> 0]

\* HasWideChar with the test j >> 7: every code above 0x7F counts as wide
HasHighChar(ascii) == \E i \in 1..Len(ascii) : ascii[i] \div 128 # 0

\* the character loop of sha256 meets a code with j >> 8 nonzero
HasWideChar(ascii) == \E i \in 1..Len(ascii) : ascii[i] \div 256 # 0

\* j << ((3 - i) % 4) * 8 for the character at index i (0-based)
ShiftedChar(padded, i) ==
    Shl(ShiftCount(JsRem(3 - i, 4) * 8), <<0, padded[i + 1]>>)

\* words[i >> 2] |= j << ((3 - i) % 4) * 8 over the whole padded string:
\* word n (0-based) collects the characters 4n .. 4n + 3
PackWords(padded) ==
    [n \in 1..(Len(padded) \div 4) |->
        OrW(OrW(OrW(ShiftedChar(padded, 4 * (n - 1)),
                    ShiftedChar(padded, 4 * (n - 1) + 1)),
                ShiftedChar(padded, 4 * (n - 1) + 2)),
            ShiftedChar(padded, 4 * (n - 1) + 3))]

\* MessageWords with the length word holding the length in characters, not bits
MessageWordsByteLength(ascii) ==
    Append(Append(PackWords(Pad(ascii)), <<0, 0>>),
           <<Len(ascii) \div 65536, Len(ascii) % 65536>>)

\* the padded message as 32-bit words, followed by the two length words
\* (asciiBitLength / maxWord) | 0 and asciiBitLength
MessageWords(ascii) ==
    LET asciiBitLength == Len(ascii) * 8
    IN Append(Append(PackWords(Pad(ascii)), <<0, 0>>),
              <<asciiBitLength \div 65536, asciiBitLength % 65536>>)

\* the expanded message word w[i], i >= 16 (w is 1-based here: w[i] is w[i + 1])
Schedule(w, i) ==
    LET w15 == w[i - 15 + 1]
        w2 == w[i - 2 + 1]
        gamma0 == XorW(XorW(rotr(7, w15), rotr(18, w15)), Shr(3, w15))
        gamma1 == XorW(XorW(rotr(17, w2), rotr(19, w2)), Shr(10, w2))
    IN AddW(AddW(AddW(w[i - 16 + 1], gamma0), w[i - 7 + 1]), gamma1)

\* iteration i of the compression loop, on st = [hash, w]
Round(st, k, i) ==
    LET hash == st.hash
        w == st.w
        a == hash[1]
        e == hash[5]
        wi == IF i < 16 THEN w[i + 1] ELSE Schedule(w, i)
        Sigma1 == XorW(XorW(rotr(6, e), rotr(11, e)), rotr(25, e))
        Ch == XorW(AndW(e, hash[6]), AndW(NotW(e), hash[7]))
        temp1 == AddW(AddW(AddW(AddW(hash[8], Sigma1), Ch), k[i + 1]), wi)
        Sigma0 == XorW(XorW(rotr(2, a), rotr(13, a)), rotr(22, a))
        Maj == XorW(XorW(AndW(a, hash[2]), AndW(a, hash[3])),
                    AndW(hash[2], hash[3]))
        temp2 == AddW(Sigma0, Maj)
        grown == <<AddW(temp1, temp2)>> \o hash
    IN [hash |-> [grown EXCEPT ![5] = AddW(grown[5], temp1)],
        w |-> IF i < 16 THEN w ELSE Append(w, wi)]

RECURSIVE Rounds(_, _, _, _)
\* for (i = from; i < to; i++) { ... }: the iterations from..to-1 of the
\* compression loop on st = [hash, w], split in halves.  TLC evaluates an
\* operator's arguments on demand; the test on `half` makes it finish the
\* first half before it starts the second, as the loop does
Rounds(st, k, from, to) ==
    IF to - from = 1 THEN Round(st, k, from)
    ELSE LET mid == (from + to) \div 2
             half == Rounds(st, k, from, mid)
         IN IF Len(half.hash) > 0 THEN Rounds(half, k, mid, to) ELSE half

\* one 16-word chunk: hash = hash.slice(0, 8), the rounds, then hash[i] += oldHash[i]
Block(oldHash, w, k) ==
    LET hash == Rounds([hash |-> SubSeq(oldHash, 1, 8), w |-> w], k, 0, 64).hash
    IN [i \in 1..Len(hash) |->
          IF i <= 8 THEN AddW(hash[i], oldHash[i]) ELSE hash[i]]

RECURSIVE Blocks(_, _, _, _)
\* for (j = 0; j < words.length;) { w = words.slice(j, j += 16); ... }
\* (the test on `next` makes TLC finish a chunk before it starts the next one)
Blocks(hash, words, k, j) ==
    IF j >= Len(words) THEN hash
    ELSE LET next == Block(hash, SubSeq(words, j + 1, j + 16), k)
         IN IF Len(next) > 0 THEN Blocks(next, words, k, j + 16) ELSE next

\* one hexadecimal digit of Number.prototype.toString(16)
HexDigit(d) == IF d < 10 THEN 48 + d ELSE 97 + (d - 10)

\* b.toString(16) for 0 <= b <= 255
ToString16(b) ==
    IF b < 16 THEN <<HexDigit(b)>> ELSE <<HexDigit(b \div 16), HexDigit(b % 16)>>

\* HexByte without the leading zero of a byte below 16
HexByteUnpadded(b) == ToString16(b)

\* ((b < 16) ? 0 : '') + b.toString(16)
HexByte(b) == (IF b < 16 THEN <<48>> ELSE <<>>) \o ToString16(b)

\* (hash[i] >> (j * 8)) & 255
ByteOf(word, j) == Shr(j * 8, word)[2] % 256

RECURSIVE HexOut(_, _, _)
\* the two output loops, eight words with bytes j = 3 down to 0 each:
\* the text of output bytes from..to-1 (byte n is byte j = 3 - n % 4 of hash[n >> 2])
HexOut(hash, from, to) ==
    IF to - from = 1
    THEN HexByte(ByteOf(hash[(from \div 4) + 1], 3 - (from % 4)))
    ELSE LET mid == (from + to) \div 2
         IN HexOut(hash, from, mid) \o HexOut(hash, mid, to)

\* CryptoEngine.sha256(ascii), run with the cached tables sha256.h = h and
\* sha256.k = k: the digest as text, or undefined
sha256(h, k, ascii) ==
    LET t == Tables(h, k)
    IN IF HasWideChar(ascii) THEN undefined
       ELSE HexOut(Blocks(t.h, MessageWords(ascii), t.k, 0), 0, 32)

\* CacheAfter of a sha256 that stores its working hash back into sha256.h
CacheAliased(h, k, ascii) ==
    LET t == Tables(h, k)
    IN IF HasWideChar(ascii) THEN t
       ELSE [h |-> SubSeq(Blocks(t.h, MessageWords(ascii), t.k, 0), 1, 8), k |-> t.k]

\* the cached tables sha256.h and sha256.k as a call of sha256 leaves them
CacheAfter(h, k, ascii) == Tables(h, k)


\* CryptoEngine.hmacSha256(key, message)
hmacSha256(h, k, key, message) == sha256(h, k, key \o message)

(* ------------------------------------------------------------------ *)
(* localStorage and FairGameEngine                                    *)
(* ------------------------------------------------------------------ *)

\* what localStorage.getItem returns for a key that is not set: no text
null == <<0 - 1>>

\* what parseInt returns for a text that does not start with a digit: no
\* number parseInt can read from such a text
NaN == 0 - 1

\* 'ClientSeed123'
DefaultClientSeed == <<67, 108, 105, 101, 110, 116, 83, 101, 101, 100, 49, 50, 51>>

\* 'ServerSeedHash...'
DefaultServerSeed ==
    <<83, 101, 114, 118, 101, 114, 83, 101, 101, 100, 72, 97, 115, 104, 46, 46, 46>>

RECURSIVE ToDecimal(_)
\* String(n) for an integer n >= 0: its decimal digits
ToDecimal(n) ==
    IF n < 10 THEN <<48 + n>> ELSE Append(ToDecimal(n \div 10), 48 + (n % 10))

\* the value of one character as a digit in the given radix, or NaN
DigitValue(c, radix) ==
    LET v == IF c >= 48 /\ c <= 57 THEN c - 48
             ELSE IF c >= 97 /\ c <= 122 THEN c - 97 + 10
             ELSE IF c >= 65 /\ c <= 90 THEN c - 65 + 10
             ELSE radix
    IN IF v < radix THEN v ELSE NaN

RECURSIVE ParseDigits(_, _, _, _)
\* parseInt's digit loop: digits are taken up to the first character that is none
ParseDigits(s, radix, i, acc) ==
    IF i > Len(s) \/ DigitValue(s[i], radix) = NaN THEN acc
    ELSE ParseDigits(s, radix, i + 1, acc * radix + DigitValue(s[i], radix))

\* parseInt(s, radix) for null (read as the text "null", which starts with no
\* digit of a radix up to 16) and for a text without sign or leading blanks
parseInt(s, radix) ==
    IF s = null THEN NaN
    ELSE IF Len(s) = 0 \/ DigitValue(s[1], radix) = NaN THEN NaN
    ELSE ParseDigits(s, radix, 1, 0)

\* a || b for a text or null a
OrElse(a, b) == IF a = null \/ a = <<>> THEN b ELSE a

\* OrZero of a constructor that never finds the stored nonce
OrZeroAlways(a) == 0

\* a || 0 for a number or NaN a
OrZero(a) == IF a = NaN THEN 0 ELSE a

\* String.prototype.substr(start, length) for 0 <= start
substr(s, start, length) ==
    SubSeq(s, start + 1, IF start + length > Len(s) THEN Len(s) ELSE start + length)

\* Direction taking the two high bits of the byte (value >> 6) as the step
DirectionTwoBits(hash, i) ==
    LET index == (i * 2) % Len(hash)
        value == parseInt(substr(hash, index, 2), 16)
    IN IF value # NaN THEN value \div 64 ELSE 0

\* Direction with the comparison value >= 127
DirectionFrom127(hash, i) ==
    LET index == (i * 2) % Len(hash)
        value == parseInt(substr(hash, index, 2), 16)
    IN IF value # NaN /\ value >= 127 THEN 1 ELSE 0

\* the decision for row i (0-based): index = (i * 2) % hash.length,
\* value = parseInt(hash.substr(index, 2), 16), dir = value > 127 ? 1 : 0
\* (a comparison with NaN is false)
Direction(hash, i) ==
    LET index == (i * 2) % Len(hash)
        value == parseInt(substr(hash, index, 2), 16)
    IN IF value # NaN /\ value > 127 THEN 1 ELSE 0

RECURSIVE DirectionSum(_, _)
\* directionSum after the first n rows: directionSum += dir, row by row
DirectionSum(path, n) ==
    IF n = 0 THEN 0 ELSE DirectionSum(path, n - 1) + path[n]

\* Outcome with the row loop running once too often (i <= rows)
OutcomeExtraRow(hash, rows, nonce) ==
    LET path == [i \in 1..(rows + 1) |-> Direction(hash, i - 1)]
    IN [slotIndex |-> DirectionSum(path, rows + 1), path |-> path,
        hash |-> hash, nonce |-> nonce]

\* the loop of generateOutcome over the rows and the object it returns
Outcome(hash, rows, nonce) ==
    LET path == [i \in 1..rows |-> Direction(hash, i - 1)]
    IN [slotIndex |-> DirectionSum(path, rows), path |-> path,
        hash |-> hash, nonce |-> nonce]

\* `${this.clientSeed}:${this.nonce}`
CurrentSeed(clientSeed, nonce) == (clientSeed \o <<58>>) \o ToDecimal(nonce)

\* Message with the two parts in the other order: currentSeed + this.serverSeed
MessageClientFirst(serverSeed, clientSeed, nonce) ==
    ((clientSeed \o <<58>>) \o ToDecimal(nonce)) \o serverSeed

\* the text generateOutcome hashes: this.serverSeed + currentSeed
Message(serverSeed, clientSeed, nonce) == serverSeed \o CurrentSeed(clientSeed, nonce)

(* ------------------------------------------------------------------ *)
(* PayTables and ProbabilityEngine                                    *)
(* ------------------------------------------------------------------ *)

\* ['low', 'normal', 'high'] of validateAllTables
Risks == <<"low", "normal", "high">>

\* PayTables with tables that rise from the first slot to the last
PayTablesSkewed ==
    [rows \in 8..16 |->
        [low |-> [i \in 1..(rows + 1) |-> 10 + i],
         normal |-> [i \in 1..(rows + 1) |-> 10 + i],
         high |-> [i \in 1..(rows + 1) |-> 10 + i]]]

\* PayTables with every table one multiplier short (rows entries, not rows + 1)
PayTablesOneShort ==
    [rows \in 8..16 |->
        [low |-> [i \in 1..rows |-> 10],
         normal |-> [i \in 1..rows |-> 10],
         high |-> [i \in 1..rows |-> 10]]]

\* PayTables[rows][risk], every multiplier in tenths (5.6 is 56): the table
\* writes no multiplier with more than one decimal
PayTables ==
    8 :> [
        low    |-> <<56, 21, 11, 10, 5, 10, 11, 21, 56>>,
        normal |-> <<130, 30, 13, 7, 4, 7, 13, 30, 130>>,
        high   |-> <<290, 40, 15, 3, 2, 3, 15, 40, 290>> ] @@
    9 :> [
        low    |-> <<56, 20, 16, 10, 7, 7, 10, 16, 20, 56>>,
        normal |-> <<180, 40, 17, 9, 5, 5, 9, 17, 40, 180>>,
        high   |-> <<430, 70, 20, 6, 2, 2, 6, 20, 70, 430>> ] @@
    10 :> [
        low    |-> <<89, 30, 14, 11, 10, 5, 10, 11, 14, 30, 89>>,
        normal |-> <<220, 50, 20, 14, 6, 4, 6, 14, 20, 50, 220>>,
        high   |-> <<760, 100, 30, 9, 3, 2, 3, 9, 30, 100, 760>> ] @@
    11 :> [
        low    |-> <<84, 30, 19, 13, 10, 7, 7, 10, 13, 19, 30, 84>>,
        normal |-> <<260, 60, 30, 18, 10, 5, 5, 10, 18, 30, 60, 260>>,
        high   |-> <<1200, 140, 52, 14, 4, 2, 2, 4, 14, 52, 140, 1200>> ] @@
    12 :> [
        low    |-> <<100, 30, 16, 14, 11, 10, 5, 10, 11, 14, 16, 30, 100>>,
        normal |-> <<330, 110, 40, 20, 11, 6, 3, 6, 11, 20, 40, 110, 330>>,
        high   |-> <<1700, 240, 81, 20, 7, 2, 2, 2, 7, 20, 81, 240, 1700>> ] @@
    13 :> [
        low    |-> <<81, 40, 30, 19, 12, 9, 7, 7, 9, 12, 19, 30, 40, 81>>,
        normal |-> <<420, 130, 60, 30, 13, 7, 4, 4, 7, 13, 30, 60, 130, 420>>,
        high   |-> <<2600, 370, 110, 40, 10, 2, 2, 2, 2, 10, 40, 110, 370, 2600>> ] @@
    14 :> [
        low    |-> <<71, 40, 19, 14, 13, 11, 10, 5, 10, 11, 13, 14, 19, 40, 71>>,
        normal |-> <<580, 150, 70, 40, 19, 10, 5, 2, 5, 10, 19, 40, 70, 150, 580>>,
        high   |-> <<4200, 560, 180, 50, 19, 3, 2, 2, 2, 3, 19, 50, 180, 560, 4200>> ] @@
    15 :> [
        low    |-> <<150, 80, 30, 20, 15, 11, 10, 7, 7, 10, 11, 15, 20, 30, 80, 150>>,
        normal |-> <<880, 180, 110, 50, 30, 13, 5, 3, 3, 5, 13, 30, 50, 110, 180, 880>>,
        high   |-> <<6200, 830, 270, 80, 30, 5, 2, 2, 2, 2, 5, 30, 80, 270, 830, 6200>> ] @@
    16 :> [
        low    |-> <<160, 90, 20, 14, 14, 12, 11, 10, 5, 10, 11, 12, 14, 14, 20, 90, 160>>,
        normal |-> <<1100, 410, 100, 50, 30, 15, 10, 5, 3, 5, 10, 15, 30, 50, 100, 410, 1100>>,
        high   |-> <<10000, 1300, 260, 90, 40, 20, 2, 2, 2, 2, 2, 20, 40, 90, 260, 1300, 10000>> ]

\* PascalEntry with the factor rows - k - 1
PascalEntryShort(line, rows, k) ==
    [quotient |-> (line[k + 1] * (rows - k - 1)) \div (k + 1),
     remainder |-> (line[k + 1] * (rows - k - 1)) % (k + 1)]

\* (line[k] * (rows - k)) / (k + 1): the whole part of the quotient and what
\* the division leaves over; the number pushed is the quotient itself only
\* when nothing is left over
PascalEntry(line, rows, k) ==
    [quotient |-> (line[k + 1] * (rows - k)) \div (k + 1),
     remainder |-> (line[k + 1] * (rows - k)) % (k + 1)]

RECURSIVE PascalLine(_, _, _)
\* for (k = from; k < rows; k++) line.push((line[k] * (rows - k)) / (k + 1))
PascalLine(line, rows, k) ==
    IF k >= rows THEN line
    ELSE PascalLine(Append(line, PascalEntry(line, rows, k).quotient), rows, k + 1)

\* ProbabilityEngine.getPascalRow(rows)
getPascalRow(rows) == PascalLine(<<1>>, rows, 0)

\* ProbabilityEngine.getProbabilities(rows): pascal[i] / 2^rows, kept as the
\* numerators over the common denominator
getProbabilities(rows) == [num |-> getPascalRow(rows), den |-> P2(rows)]

RECURSIVE ExpectedValue(_, _, _)
\* expectedValue += multipliers[i] * probabilities[i] over the first n slots,
\* in tenths of a numerator
ExpectedValue(multipliers, numerators, n) ==
    IF n = 0 THEN 0
    ELSE ExpectedValue(multipliers, numerators, n - 1) + multipliers[n] * numerators[n]

\* ProbabilityEngine.calculateRTP(rows, risk) as the exact fraction num / den
\* (in percent).  The code adds the same terms in floating point; its result
\* is within 1e-9 of this fraction, far less than the distance of any shipped
\* table from the ceiling of 99
\* `tables` is the PayTables object the call reads.  On a length mismatch the
\* code logs an error and returns 0
calculateRTPOf(tables, rows, risk) ==
    LET multipliers == tables[rows][risk]
        probabilities == getProbabilities(rows)
    IN IF Len(multipliers) # Len(probabilities.num)
       THEN [num |-> 0, den |-> 1, mismatch |-> TRUE]
       ELSE [num |-> 100 * ExpectedValue(multipliers, probabilities.num, Len(multipliers)),
             den |-> 10 * probabilities.den, mismatch |-> FALSE]

\* calculateRTP(rows, risk) over the shipped PayTables
calculateRTP(rows, risk) == calculateRTPOf(PayTables, rows, risk)

\* rtp <= 99 ? 'OK' : 'HIGH'
Status(rtp) == IF rtp.num <= 99 * rtp.den THEN "OK" ELSE "HIGH"

\* the line validateAllTables logs for the n-th combination, for r = 8 .. 16
\* and for each risk in order
ValidationLine(tables, n) ==
    LET r == 8 + ((n - 1) \div 3)
        risk == Risks[((n - 1) % 3) + 1]
        rtp == calculateRTPOf(tables, r, risk)
    IN [rows |-> r, risk |-> risk, rtp |-> rtp, status |-> Status(rtp)]

\* ValidationLogOf of a validateAllTables that stops at the first HIGH line
ValidationLogHalting(tables) ==
    LET high == {n \in 1..27 : ValidationLine(tables, n).status = "HIGH"}
        stop == IF high = {} THEN 27 ELSE CHOOSE n \in high : \A m \in high : n <= m
    IN [n \in 1..stop |-> ValidationLine(tables, n)]

\* the lines validateAllTables logs when PayTables is `tables`
ValidationLogOf(tables) == [n \in 1..27 |-> ValidationLine(tables, n)]

\* the lines validateAllTables logs for the shipped PayTables
ValidationLog == ValidationLogOf(PayTables)

(* ------------------------------------------------------------------ *)
(* State                                                              *)
(* ------------------------------------------------------------------ *)

\* the pages (tabs) of one browser profile: they share localStorage, and each
\* holds at most one FairGameEngine
Engines == {"tabA", "tabB"}

\* a page in which no FairGameEngine has been constructed
NoEngine == [constructed |-> FALSE, clientSeed |-> <<>>, serverSeed |-> <<>>, nonce |-> 0]

\* the most generateOutcome calls of one behaviour
MaxCalls == 3

\* the row counts generateOutcome is called with
RowChoices == {0, 8, 16}

\* a client seed with a character above 0xFF
WideSeed == <<1078, 49>>

\* the seeds a profile's storage may hold: <<plinko_client_seed, plinko_server_seed>>
StoredSeeds == {<<null, null>>, <<WideSeed, null>>, <<<<233>>, <<107, 49>>>>}

\* the nonce texts a profile's storage may hold: none, or one an earlier
\* session has written
StoredNonces == {null, ToDecimal(9)}

VARIABLES
    localStorage,   \* the keys plinko_client_seed, plinko_server_seed, plinko_nonce
    setItemThrows,  \* whether localStorage.setItem throws (quota exceeded, storage off)
    engine,         \* per page: NoEngine or the fields of its FairGameEngine
    last,           \* per page: the last generateOutcome call of its engine
    issued,         \* <<serverSeed, clientSeed, nonce>> of every outcome returned
    calls,          \* generateOutcome calls so far
    sha_h,          \* CryptoEngine.sha256.h
    sha_k,          \* CryptoEngine.sha256.k
    ascii,          \* the argument of a direct CryptoEngine.sha256 call
    digest,         \* what that call returned
    shaCalls,       \* direct sha256 calls so far
    rtpCall,        \* a direct ProbabilityEngine.calculateRTP call and its result
    console,        \* the lines validateAllTables has logged
    payTables,      \* the PayTables object the ProbabilityEngine reads
    mapping,        \* a digest and row count given to the row loop, and its result
    tally,          \* slot counts of the row loop over the threshold bits of a digest
    pascal,         \* a getPascalRow / getProbabilities call and how far it has run
    rounds,         \* two rounds' seeds and nonces, and the texts hashed for them
    auto,           \* the AutoBetEngine of the panel and its pending timer
    toast           \* the ToastManager: its toasts list and its pending timers

vars == <<localStorage, setItemThrows, engine, last, issued, calls, sha_h, sha_k,
          ascii, digest, shaCalls, rtpCall, console, payTables, mapping,
          tally, pascal, rounds, auto, toast>>

engineVars == <<localStorage, setItemThrows, engine, last, issued, calls>>
shaVars == <<ascii, digest, shaCalls>>
tableVars == <<rtpCall, console, payTables>>
pathVars == <<mapping>>
countVars == <<tally, pascal, rounds>>
panelVars == <<auto, toast>>

\* no call yet on the engine of a page; `stored` is the plinko_nonce text the
\* constructor found
NoCall(stored) == [kind |-> "none", stored |-> stored, returnedNonces |-> <<>>]

NoRtpCall == [rows |-> 0, risk |-> "", done |-> FALSE, result |-> [num |-> 0, den |-> 1, mismatch |-> FALSE]]

\* nothing constructed, nothing called
EngineIdle ==
    /\ engine = [e \in Engines |-> NoEngine]
    /\ last = [e \in Engines |-> NoCall(null)]
    /\ issued = {}
    /\ calls = 0

ShaIdle == ascii = <<>> /\ digest = <<>> /\ shaCalls = 0

TablesIdle == rtpCall = NoRtpCall /\ console = <<>> /\ payTables = PayTables

CacheEmpty == sha_h = <<>> /\ sha_k = <<>>

\* no digest given to the row loop
NoMapping ==
    [hash |-> <<>>, rows |-> 0, done |-> FALSE,
     out |-> [slotIndex |-> 0, path |-> <<>>, hash |-> <<>>, nonce |-> 0]]

PathIdle == mapping = NoMapping

\* no count of the row loop started
NoTally == [rows |-> 0, next |-> 0, counts |-> <<>>]

\* no getPascalRow call started
NoPascal ==
    [rows |-> 0, k |-> 0, line |-> <<>>, exact |-> TRUE, pc |-> "idle",
     probs |-> [num |-> <<>>, den |-> 1]]

\* no rounds given to the message construction
NoRounds == [first |-> <<>>, second |-> <<>>, texts |-> <<>>]

CountIdle == tally = NoTally /\ pascal = NoPascal /\ rounds = NoRounds

\* the AutoBetEngine as its constructor leaves it: not active, no timer
\* (`timer` is the id setTimeout last returned, 0 for null; `pending` the ids
\* of the timers that have not fired; `balance` what window.UI.getBalance()
\* returns; `placed` the placeBet calls of the run; `ended` why the run stopped)
NoAuto ==
    [active |-> FALSE, totalBets |-> 0, stopWin |-> 0, stopLoss |-> 0,
     betsCount |-> 0, startBalance |-> 0, timer |-> 0,
     pending |-> {}, nextId |-> 1, balance |-> 0,
     placed |-> 0, ended |-> "", runs |-> 0]

\* the ToastManager as its constructor leaves it
\* (`toasts` holds the ids of this.toasts in order; `timers` the pending
\* setTimeout callbacks, each with the time it is due, its place in the order
\* of setting, whether it is show's () => this.remove(id) or remove's filter,
\* and the id it closes over; `now` is Date.now() counted from the page load)
NoToast == [toasts |-> <<>>, timers |-> {}, now |-> 0, nextTimer |-> 1, shows |-> 0]

PanelIdle == auto = NoAuto /\ toast = NoToast

(* ------------------------------------------------------------------ *)
(* Spec: pages constructing engines and generating outcomes           *)
(* ------------------------------------------------------------------ *)

Init ==
    /\ \E seeds \in StoredSeeds, n \in StoredNonces :
          localStorage = [plinko_client_seed |-> seeds[1],
                          plinko_server_seed |-> seeds[2],
                          plinko_nonce |-> n]
    /\ setItemThrows = FALSE
    /\ EngineIdle
    /\ CacheEmpty
    /\ ShaIdle
    /\ TablesIdle
    /\ PathIdle
    /\ CountIdle
    /\ PanelIdle

\* new FairGameEngine() in page e
Construct(e) ==
    /\ engine' = [engine EXCEPT ![e] =
          [constructed |-> TRUE,
           clientSeed |-> OrElse(localStorage.plinko_client_seed, DefaultClientSeed),
           serverSeed |-> OrElse(localStorage.plinko_server_seed, DefaultServerSeed),
           nonce |-> OrZero(parseInt(localStorage.plinko_nonce, 10))]]
    /\ last' = [last EXCEPT ![e] = NoCall(localStorage.plinko_nonce)]
    /\ UNCHANGED <<localStorage, setItemThrows, issued, calls, sha_h, sha_k,
                   shaVars, tableVars, pathVars,
                   countVars, panelVars>>

\* Incremented with the nonce stepped twice per call
IncrementedTwice(nonce) == nonce + 2

\* this.nonce++ : the nonce generateOutcome goes on with
Incremented(nonce) == nonce + 1

\* an exception thrown by localStorage.setItem swallowed inside generateOutcome
AbortsNever(thrown) == FALSE

\* generateOutcome has no try: an exception thrown inside it leaves the call
Aborts(thrown) == thrown

\* localStorage.setItem called with the key of the client seed
AfterSetItemSeedKey(storage, nonce) ==
    [storage EXCEPT !.plinko_client_seed = ToDecimal(nonce)]

\* localStorage.setItem that leaves the stored nonce as it was
AfterSetItemStale(storage, nonce) == storage

\* localStorage.setItem('plinko_nonce', this.nonce): the storage after the
\* write (the number is stored as its decimal text)
AfterSetItem(storage, nonce) == [storage EXCEPT !.plinko_nonce = ToDecimal(nonce)]

\* the engine of page e runs generateOutcome(rows).  If setItem throws, the
\* call ends there, after this.nonce++.  With no digest (sha256 returned
\* undefined) and rows > 0, hash.length throws and nothing is returned.
\* `last` records the call: `before` the nonce the instance held, `hashed`
\* the text given to sha256, `atHash` the stored plinko_nonce when sha256 was
\* called, `returnedNonces` the nonces the instance has returned so far and
\* `stored` the plinko_nonce text its constructor found
GenerateOutcome(e) ==
    /\ engine[e].constructed
    /\ calls < MaxCalls
    /\ LET nonce == Incremented(engine[e].nonce)
           text == Message(engine[e].serverSeed, engine[e].clientSeed, nonce)
           cache == CacheAfter(sha_h, sha_k, text)
           storage == IF setItemThrows THEN localStorage
                      ELSE AfterSetItem(localStorage, nonce)
       IN /\ engine' = [engine EXCEPT ![e].nonce = nonce]
          /\ calls' = calls + 1
          /\ IF Aborts(setItemThrows)
             THEN /\ \E rows \in RowChoices :
                        last' = [last EXCEPT ![e] =
                            [kind |-> "threw", at |-> "setItem", rows |-> rows,
                             before |-> engine[e].nonce,
                             returnedNonces |-> last[e].returnedNonces,
                             stored |-> last[e].stored]]
                  /\ UNCHANGED <<localStorage, issued, sha_h, sha_k>>
             ELSE /\ localStorage' = storage
                  /\ sha_h' = cache.h
                  /\ sha_k' = cache.k
                  /\ \E hash \in {sha256(sha_h, sha_k, text)}, rows \in RowChoices :
                        IF hash = undefined /\ rows > 0
                        THEN /\ last' = [last EXCEPT ![e] =
                                    [kind |-> "threw", at |-> "hash.length",
                                     rows |-> rows,
                                     before |-> engine[e].nonce, hashed |-> text,
                                     atHash |-> storage.plinko_nonce,
                                     returnedNonces |-> last[e].returnedNonces,
                                     stored |-> last[e].stored]]
                             /\ UNCHANGED issued
                        ELSE /\ last' = [last EXCEPT ![e] =
                                    [kind |-> "returned", rows |-> rows,
                                     before |-> engine[e].nonce, hashed |-> text,
                                     atHash |-> storage.plinko_nonce,
                                     out |-> Outcome(hash, rows, nonce),
                                     returnedNonces |->
                                         Append(last[e].returnedNonces, nonce),
                                     stored |-> last[e].stored]]
                             /\ issued' = issued \cup
                                    {<<engine[e].serverSeed, engine[e].clientSeed, nonce>>}
    /\ UNCHANGED <<setItemThrows, shaVars, tableVars, pathVars,
                   countVars, panelVars>>

Next == \E e \in Engines : Construct(e) \/ GenerateOutcome(e)

Spec == Init /\ [][Next]_vars

(* ------------------------------------------------------------------ *)
(* SpecFaults: the same pages with storage that can fail and be reset *)
(* ------------------------------------------------------------------ *)

\* the seeds a profile's storage holds here: none, or a client seed with a
\* character above 0xFF
FaultSeeds == {<<null, null>>, <<WideSeed, null>>}

InitFaults ==
    /\ \E seeds \in FaultSeeds, n \in StoredNonces :
          localStorage = [plinko_client_seed |-> seeds[1],
                          plinko_server_seed |-> seeds[2],
                          plinko_nonce |-> n]
    /\ setItemThrows = FALSE
    /\ EngineIdle
    /\ CacheEmpty
    /\ ShaIdle
    /\ TablesIdle
    /\ PathIdle
    /\ CountIdle
    /\ PanelIdle

\* StorageManager.reset(): localStorage.clear() removes every key
Reset ==
    /\ localStorage' = [plinko_client_seed |-> null, plinko_server_seed |-> null,
                        plinko_nonce |-> null]
    /\ UNCHANGED <<setItemThrows, engine, last, issued, calls, sha_h, sha_k,
                   shaVars, tableVars, pathVars,
                   countVars, panelVars>>

\* the storage fills up: from now on setItem throws
QuotaExceeded ==
    /\ ~setItemThrows
    /\ setItemThrows' = TRUE
    /\ UNCHANGED <<localStorage, engine, last, issued, calls, sha_h, sha_k,
                   shaVars, tableVars, pathVars,
                   countVars, panelVars>>

\* the most generateOutcome calls of one behaviour with failing storage
MaxFaultCalls == 2

NextFaults ==
    \/ \E e \in Engines : Construct(e) \/ (calls < MaxFaultCalls /\ GenerateOutcome(e))
    \/ Reset
    \/ QuotaExceeded

SpecFaults == InitFaults /\ [][NextFaults]_vars

(* ------------------------------------------------------------------ *)
(* SpecSha: direct calls of CryptoEngine.sha256                       *)
(* ------------------------------------------------------------------ *)

\* the longest text drawn from ShaAlphabet
MaxTextLen == 2

\* the most sha256 calls on one text
MaxShaCalls == 2

\* character codes: NUL, 'a', the first code above ASCII, the last code sha256
\* accepts, the first it does not
ShaAlphabet == {0, 97, 128, 255, 256, 65535}

\* "abc"
TextAbc == <<97, 98, 99>>

\* "abcdbcdecdefdefgefghfghighijhijkijkljklmklmnlmnomnopnopq": 56 characters,
\* so the padded message spans two 64-byte blocks
TextTwoBlocks ==
    <<97, 98, 99, 100, 98, 99, 100, 101, 99, 100, 101, 102, 100, 101, 102, 103, 101,
    102, 103, 104, 102, 103, 104, 105, 103, 104, 105, 106, 104, 105, 106, 107, 105,
    106, 107, 108, 106, 107, 108, 109, 107, 108, 109, 110, 108, 109, 110, 111, 109,
    110, 111, 112, 110, 111, 112, 113>>

\* 55 times 'a', the longest text that fits one block, and 64 times 'a'
TextOneBlock == [i \in 1..55 |-> 97]
TextFullBlock == [i \in 1..64 |-> 97]

ShaInputs ==
    UNION {[1..n -> ShaAlphabet] : n \in 0..MaxTextLen}
    \cup {TextAbc, TextTwoBlocks, TextOneBlock, TextFullBlock}

InitSha ==
    /\ ascii \in ShaInputs
    /\ digest = <<>>
    /\ shaCalls = 0
    /\ CacheEmpty
    /\ localStorage = [plinko_client_seed |-> null, plinko_server_seed |-> null,
                       plinko_nonce |-> null]
    /\ setItemThrows = FALSE
    /\ EngineIdle
    /\ TablesIdle
    /\ PathIdle
    /\ CountIdle
    /\ PanelIdle

\* CryptoEngine.sha256(ascii)
Sha256Call ==
    /\ shaCalls < MaxShaCalls
    /\ digest' = sha256(sha_h, sha_k, ascii)
    /\ sha_h' = CacheAfter(sha_h, sha_k, ascii).h
    /\ sha_k' = CacheAfter(sha_h, sha_k, ascii).k
    /\ shaCalls' = shaCalls + 1
    /\ UNCHANGED <<ascii, engineVars, tableVars, pathVars,
                   countVars, panelVars>>

NextSha == Sha256Call

SpecSha == InitSha /\ [][NextSha]_vars

(* ------------------------------------------------------------------ *)
(* SpecTables: ProbabilityEngine over the shipped PayTables           *)
(* ------------------------------------------------------------------ *)

SupportedRows == 8..16

RiskLevels == {Risks[i] : i \in 1..Len(Risks)}

InitTables ==
    /\ \E r \in SupportedRows, risk \in RiskLevels :
          rtpCall = [NoRtpCall EXCEPT !.rows = r, !.risk = risk]
    /\ console = <<>>
    /\ payTables = PayTables
    /\ CacheEmpty
    /\ localStorage = [plinko_client_seed |-> null, plinko_server_seed |-> null,
                       plinko_nonce |-> null]
    /\ setItemThrows = FALSE
    /\ EngineIdle
    /\ ShaIdle
    /\ PathIdle
    /\ CountIdle
    /\ PanelIdle

\* ProbabilityEngine.calculateRTP(rows, risk) with the arguments drawn
CalculateRTP ==
    /\ ~rtpCall.done
    /\ rtpCall' = [rtpCall EXCEPT !.done = TRUE,
                                  !.result = calculateRTPOf(payTables, rtpCall.rows,
                                                            rtpCall.risk)]
    /\ UNCHANGED <<console, payTables, engineVars, sha_h, sha_k, shaVars, pathVars,
                   countVars, panelVars>>

\* ProbabilityEngine.validateAllTables()
ValidateAllTables ==
    /\ console = <<>>
    /\ console' = ValidationLogOf(payTables)
    /\ UNCHANGED <<rtpCall, payTables, engineVars, sha_h, sha_k, shaVars, pathVars,
                   countVars, panelVars>>

NextTables == CalculateRTP \/ ValidateAllTables

SpecTables == InitTables /\ [][NextTables]_vars

(* ------------------------------------------------------------------ *)
(* SpecPath: the row loop of generateOutcome over digests             *)
(* ------------------------------------------------------------------ *)

\* the most rows beyond the 32 bytes of a digest that the row loop is given
MaxExtraRows == 8

\* the row counts given to the row loop: none, one, a board's 16, one per
\* digest byte, and more rows than digest bytes
PathRows == {0, 1, 16, 32, 33, 32 + MaxExtraRows}

\* the text of a digest whose 32 bytes are first, first + 37, first + 74, ...
\* modulo 256: every byte value stands at every place of some such digest
PathDigest(first) ==
    LET byte(j) == HexByte((first + 37 * j) % 256)
        pair(j) == byte(2 * j) \o byte(2 * j + 1)
        four(j) == pair(2 * j) \o pair(2 * j + 1)
        eight(j) == four(2 * j) \o four(2 * j + 1)
    IN (eight(0) \o eight(1)) \o (eight(2) \o eight(3))

PathDigests == {PathDigest(first) : first \in 0..255}

InitPath ==
    /\ \E hash \in PathDigests, rows \in PathRows :
          mapping = [NoMapping EXCEPT !.hash = hash, !.rows = rows]
    /\ CacheEmpty
    /\ localStorage = [plinko_client_seed |-> null, plinko_server_seed |-> null,
                       plinko_nonce |-> null]
    /\ setItemThrows = FALSE
    /\ EngineIdle
    /\ ShaIdle
    /\ TablesIdle
    /\ CountIdle
    /\ PanelIdle

\* the row loop and the returned object of generateOutcome for the digest
MapPath ==
    /\ ~mapping.done
    /\ mapping' = [mapping EXCEPT !.done = TRUE,
                                  !.out = Outcome(mapping.hash, mapping.rows, 0)]
    /\ UNCHANGED <<engineVars, sha_h, sha_k, shaVars, tableVars,
                   countVars, panelVars>>

NextPath == MapPath

SpecPath == InitPath /\ [][NextPath]_vars

(* ------------------------------------------------------------------ *)
(* SpecConfig: ProbabilityEngine over an edited PayTables             *)
(* ------------------------------------------------------------------ *)

\* PayTables objects with one malformed entry: a multiplier missing, a
\* multiplier too many, no multipliers
EditedTables ==
    {[PayTables EXCEPT ![8].high = SubSeq(@, 1, 8)],
     [PayTables EXCEPT ![16].low = Append(@, 10)],
     [PayTables EXCEPT ![11].normal = <<>>]}

InitConfig ==
    /\ \E r \in SupportedRows, risk \in RiskLevels :
          rtpCall = [NoRtpCall EXCEPT !.rows = r, !.risk = risk]
    /\ console = <<>>
    /\ payTables \in EditedTables \cup {PayTables}
    /\ CacheEmpty
    /\ localStorage = [plinko_client_seed |-> null, plinko_server_seed |-> null,
                       plinko_nonce |-> null]
    /\ setItemThrows = FALSE
    /\ EngineIdle
    /\ ShaIdle
    /\ PathIdle
    /\ CountIdle
    /\ PanelIdle

SpecConfig == InitConfig /\ [][NextTables]_vars

(* ------------------------------------------------------------------ *)
(* SpecCount: the slot of every combination of threshold bits         *)
(* ------------------------------------------------------------------ *)

\* the row counts counted: every supported one
CountRows == SupportedRows

\* the text of a digest whose byte i (0-based), for i < rows, is 0x80 when bit
\* i of `combo` is set and 0x7f when it is not: the two byte values on either
\* side of the comparison value > 127.  The bytes from `rows` on are 0xff
ThresholdDigest(rows, combo) ==
    [j \in 1..64 |->
        LET i == (j - 1) \div 2
            first == (j % 2) = 1
        IN IF i >= rows THEN 102
           ELSE IF (combo \div P2(i)) % 2 = 1
                THEN (IF first THEN 56 ELSE 48)
                ELSE (IF first THEN 55 ELSE 102)]

InitCount ==
    /\ \E rows \in CountRows :
          tally = [rows |-> rows, next |-> 0, counts |-> [k \in 1..(rows + 1) |-> 0]]
    /\ pascal = NoPascal
    /\ rounds = NoRounds
    /\ CacheEmpty
    /\ localStorage = [plinko_client_seed |-> null, plinko_server_seed |-> null,
                       plinko_nonce |-> null]
    /\ setItemThrows = FALSE
    /\ EngineIdle
    /\ ShaIdle
    /\ TablesIdle
    /\ PathIdle
    /\ PanelIdle

\* the row loop of generateOutcome run on the digest of the next combination
\* of threshold bits; the slot it returns is counted
CountOutcome ==
    /\ tally.next < P2(tally.rows)
    /\ \E out \in {Outcome(ThresholdDigest(tally.rows, tally.next), tally.rows, 0)} :
          tally' = [tally EXCEPT !.next = @ + 1,
                                 !.counts[out.slotIndex + 1] = @ + 1]
    /\ UNCHANGED <<pascal, rounds, engineVars, sha_h, sha_k, shaVars, tableVars, pathVars,
                   panelVars>>

NextCount == CountOutcome

SpecCount == InitCount /\ [][NextCount]_vars

(* ------------------------------------------------------------------ *)
(* SpecPascal: getProbabilities, and its getPascalRow loop, by steps  *)
(* ------------------------------------------------------------------ *)

\* the row counts getProbabilities is called with
PascalRows == 0..16

\* getProbabilities(rows) has called getPascalRow(rows): let line = [1], k = 0
InitPascal ==
    /\ \E rows \in PascalRows :
          pascal = [NoPascal EXCEPT !.rows = rows, !.line = <<1>>, !.pc = "loop"]
    /\ tally = NoTally
    /\ rounds = NoRounds
    /\ CacheEmpty
    /\ localStorage = [plinko_client_seed |-> null, plinko_server_seed |-> null,
                       plinko_nonce |-> null]
    /\ setItemThrows = FALSE
    /\ EngineIdle
    /\ ShaIdle
    /\ TablesIdle
    /\ PathIdle
    /\ PanelIdle

\* one turn of the loop: line.push((line[k] * (rows - k)) / (k + 1)); k++.
\* `exact` records whether every division so far left nothing over
PascalPush ==
    /\ pascal.pc = "loop"
    /\ pascal.k < pascal.rows
    /\ \E entry \in {PascalEntry(pascal.line, pascal.rows, pascal.k)} :
          pascal' = [pascal EXCEPT !.line = Append(@, entry.quotient),
                                   !.exact = @ /\ entry.remainder = 0,
                                   !.k = @ + 1]
    /\ UNCHANGED <<tally, rounds, engineVars, sha_h, sha_k, shaVars, tableVars, pathVars,
                   panelVars>>

\* k < rows fails: return line
PascalReturn ==
    /\ pascal.pc = "loop"
    /\ pascal.k >= pascal.rows
    /\ pascal' = [pascal EXCEPT !.pc = "row"]
    /\ UNCHANGED <<tally, rounds, engineVars, sha_h, sha_k, shaVars, tableVars, pathVars,
                   panelVars>>

\* pascal.map(val => val / Math.pow(2, rows)), kept as numerators over the
\* common denominator
MapProbabilities ==
    /\ pascal.pc = "row"
    /\ pascal' = [pascal EXCEPT !.pc = "probabilities",
                                !.probs = [num |-> pascal.line, den |-> P2(pascal.rows)]]
    /\ UNCHANGED <<tally, rounds, engineVars, sha_h, sha_k, shaVars, tableVars, pathVars,
                   panelVars>>

NextPascal == PascalPush \/ PascalReturn \/ MapProbabilities

SpecPascal == InitPascal /\ [][NextPascal]_vars

(* ------------------------------------------------------------------ *)
(* SpecMessage: the text hashed for a round, for pairs of rounds      *)
(* ------------------------------------------------------------------ *)

\* <<serverSeed, clientSeed>> of rounds: the default seeds, two pairs that
\* split the same text at different places, a client seed that ends like a
\* separator and a nonce, and a pair that differs from another in one character
RoundSeeds ==
    {<<DefaultServerSeed, DefaultClientSeed>>,
     <<<<107, 49>>, <<233>>>>,
     <<<<107>>, <<49, 233>>>>,
     <<<<107>>, <<233, 58, 49>>>>,
     <<<<107>>, <<233>>>>}

\* the nonces of rounds
RoundNonces == {1, 2, 12}

\* the rounds: <<serverSeed, clientSeed, nonce>>
RoundTriples == {<<p[1], p[2], n>> : p \in RoundSeeds, n \in RoundNonces}

InitMessage ==
    /\ \E a \in RoundTriples, b \in RoundTriples :
          rounds = [NoRounds EXCEPT !.first = a, !.second = b]
    /\ tally = NoTally
    /\ pascal = NoPascal
    /\ CacheEmpty
    /\ localStorage = [plinko_client_seed |-> null, plinko_server_seed |-> null,
                       plinko_nonce |-> null]
    /\ setItemThrows = FALSE
    /\ EngineIdle
    /\ ShaIdle
    /\ TablesIdle
    /\ PathIdle
    /\ PanelIdle

\* the text generateOutcome gives to sha256 in each of the two rounds
BuildMessages ==
    /\ rounds.texts = <<>>
    /\ rounds' = [rounds EXCEPT !.texts =
          <<Message(rounds.first[1], rounds.first[2], rounds.first[3]),
            Message(rounds.second[1], rounds.second[2], rounds.second[3])>>]
    /\ UNCHANGED <<tally, pascal, engineVars, sha_h, sha_k, shaVars, tableVars,
                   pathVars, panelVars>>

NextMessage == BuildMessages

SpecMessage == InitMessage /\ [][NextMessage]_vars

(* ------------------------------------------------------------------ *)
(* SpecSingle: one engine at a time, storage that fails and recovers  *)
(* ------------------------------------------------------------------ *)

\* the most generateOutcome calls of one behaviour with a single writer
MaxSingleCalls == 3

\* new FairGameEngine() in page e while no other page holds an engine: the
\* page is opened, or reloaded (its old engine is dropped with the old page)
ConstructAlone(e) ==
    /\ \A o \in Engines \ {e} : ~engine[o].constructed
    /\ Construct(e)

\* page e is closed: its FairGameEngine is gone with it
ClosePage(e) ==
    /\ engine[e].constructed
    /\ engine' = [engine EXCEPT ![e] = NoEngine]
    /\ last' = [last EXCEPT ![e] = NoCall(null)]
    /\ UNCHANGED <<localStorage, setItemThrows, issued, calls, sha_h, sha_k,
                   shaVars, tableVars, pathVars, countVars, panelVars>>

\* room is made in the storage: setItem works again
QuotaFreed ==
    /\ setItemThrows
    /\ setItemThrows' = FALSE
    /\ UNCHANGED <<localStorage, engine, last, issued, calls, sha_h, sha_k,
                   shaVars, tableVars, pathVars, countVars, panelVars>>

NextSingle ==
    \/ \E e \in Engines :
          \/ ConstructAlone(e)
          \/ ClosePage(e)
          \/ (calls < MaxSingleCalls /\ GenerateOutcome(e))
    \/ QuotaExceeded
    \/ QuotaFreed

SpecSingle == InitFaults /\ [][NextSingle]_vars

(* ------------------------------------------------------------------ *)
(* SpecAuto: the AutoBetEngine of the panel                           *)
(* ------------------------------------------------------------------ *)

\* the largest number of bets typed into the auto settings
MaxTotalBets == 3

\* the most auto-bet runs started in one behaviour
MaxAutoRuns == 2

\* placeBet calls after which a run without a bet limit is not followed further
MaxPlaced == MaxTotalBets + 1

\* the stop-win and stop-loss limits typed into the auto settings (0: none)
StopLimits == {0, 1}

\* the balances window.UI.getBalance() returns, as a distance from the first
BalanceRange == (0 - 1)..1

\* AutoBetEngine.stop(), with the reason the caller has logged
Stop(a, why) ==
    IF ~a.active THEN a
    ELSE [a EXCEPT !.active = FALSE, !.pending = @ \ {a.timer}, !.ended = why]

\* Loop that goes on while betsCount <= totalBets
LoopOneMore(a, betSuccess) ==
    IF ~a.active THEN a
    ELSE IF a.totalBets > 0 /\ a.betsCount > a.totalBets
         THEN Stop(a, "Limit reached: Total Bets")
    ELSE IF a.stopWin > 0 /\ a.balance - a.startBalance >= a.stopWin
         THEN Stop(a, "Limit reached: Take Profit")
    ELSE IF a.stopLoss > 0 /\ a.balance - a.startBalance <= 0 - a.stopLoss
         THEN Stop(a, "Limit reached: Stop Loss")
    ELSE IF betSuccess
         THEN [a EXCEPT !.placed = @ + 1, !.betsCount = @ + 1,
                        !.timer = a.nextId, !.pending = @ \cup {a.nextId},
                        !.nextId = @ + 1]
    ELSE Stop([a EXCEPT !.placed = @ + 1], "Bet failed, stopping")

\* AutoBetEngine.loop(): the function has no await, so it runs to its end
\* when called.  `betSuccess` is what this.gameController.placeBet() returns
\* if the loop gets as far as calling it
Loop(a, betSuccess) ==
    IF ~a.active THEN a
    ELSE IF a.totalBets > 0 /\ a.betsCount >= a.totalBets
         THEN Stop(a, "Limit reached: Total Bets")
    ELSE IF a.stopWin > 0 /\ a.balance - a.startBalance >= a.stopWin
         THEN Stop(a, "Limit reached: Take Profit")
    ELSE IF a.stopLoss > 0 /\ a.balance - a.startBalance <= 0 - a.stopLoss
         THEN Stop(a, "Limit reached: Stop Loss")
    ELSE IF betSuccess
         THEN [a EXCEPT !.placed = @ + 1, !.betsCount = @ + 1,
                        !.timer = a.nextId, !.pending = @ \cup {a.nextId},
                        !.nextId = @ + 1]
    ELSE Stop([a EXCEPT !.placed = @ + 1], "Bet failed, stopping")

InitAuto ==
    /\ auto = NoAuto
    /\ toast = NoToast
    /\ CountIdle
    /\ CacheEmpty
    /\ localStorage = [plinko_client_seed |-> null, plinko_server_seed |-> null,
                       plinko_nonce |-> null]
    /\ setItemThrows = FALSE
    /\ EngineIdle
    /\ ShaIdle
    /\ TablesIdle
    /\ PathIdle

\* AutoBetEngine.start(): returns at once if active; else reads the settings,
\* resets the counters, sets active and calls loop()
AutoStart ==
    /\ ~auto.active
    /\ auto.runs < MaxAutoRuns
    /\ \E totalBets \in 0..MaxTotalBets, stopWin \in StopLimits,
          stopLoss \in StopLimits, betSuccess \in BOOLEAN :
          auto' = Loop([auto EXCEPT !.totalBets = totalBets,
                                    !.stopWin = stopWin,
                                    !.stopLoss = stopLoss,
                                    !.betsCount = 0,
                                    !.startBalance = auto.balance,
                                    !.active = TRUE,
                                    !.placed = 0, !.ended = "",
                                    !.runs = @ + 1],
                       betSuccess)
    /\ UNCHANGED <<toast, engineVars, sha_h, sha_k, shaVars, tableVars, pathVars,
                   countVars>>

\* a timer set by loop() fires: () => this.loop()
AutoTimerFires ==
    /\ auto.placed < MaxPlaced
    /\ \E id \in auto.pending, betSuccess \in BOOLEAN :
          auto' = Loop([auto EXCEPT !.pending = @ \ {id}], betSuccess)
    /\ UNCHANGED <<toast, engineVars, sha_h, sha_k, shaVars, tableVars, pathVars,
                   countVars>>

\* AutoBetEngine.stop() called from outside the loop
AutoStop ==
    /\ auto.active
    /\ auto' = Stop(auto, "stop()")
    /\ UNCHANGED <<toast, engineVars, sha_h, sha_k, shaVars, tableVars, pathVars,
                   countVars>>

\* a round is paid for or pays out: the balance the loop reads changes
BalanceChanges ==
    /\ \E balance \in BalanceRange \ {auto.balance} :
          auto' = [auto EXCEPT !.balance = balance]
    /\ UNCHANGED <<toast, engineVars, sha_h, sha_k, shaVars, tableVars, pathVars,
                   countVars>>

NextAuto == AutoStart \/ AutoTimerFires \/ AutoStop \/ BalanceChanges

SpecAuto == InitAuto /\ [][NextAuto]_vars

\* the browser fires every timer that stays pending
SpecAutoFair == InitAuto /\ [][NextAuto]_vars /\ WF_vars(AutoTimerFires)

(* ------------------------------------------------------------------ *)
(* SpecToast: the ToastManager of ui.js                               *)
(* ------------------------------------------------------------------ *)

\* UI_CONFIG.notifications.maxCount
maxCount == 5

\* UI_CONFIG.notifications.timeout, in milliseconds
timeout == 4000

\* the delay of the setTimeout in ToastManager.remove, in milliseconds
RemoveDelay == 300

\* the most show() calls of one behaviour
MaxShows == 6

\* ToastManager.remove(id): nothing if no toast has the id; else the toast is
\* faded out and a timer is set that will filter the id out of this.toasts
RemoveToast(t, id) ==
    IF \A i \in 1..Len(t.toasts) : t.toasts[i] # id THEN t
    ELSE [t EXCEPT !.timers = @ \cup {[due |-> t.now + RemoveDelay, n |-> t.nextTimer,
                                       kind |-> "filter", id |-> id]},
                   !.nextTimer = @ + 1]

\* ToastManager.show(message): remove(this.toasts[0].id) if the list is full,
\* id = Date.now().toString(), push, and a timer for this.remove(id)
ShowToast(t) ==
    LET made == IF Len(t.toasts) >= maxCount THEN RemoveToast(t, t.toasts[1]) ELSE t
        id == made.now
    IN [made EXCEPT !.toasts = Append(@, id),
                    !.timers = @ \cup {[due |-> made.now + timeout, n |-> made.nextTimer,
                                        kind |-> "auto", id |-> id]},
                    !.nextTimer = @ + 1,
                    !.shows = @ + 1]

\* this.toasts.filter(t => t.id !== id)
FilterOut(toasts, id) == SelectSeq(toasts, LAMBDA x : x # id)

InitToast ==
    /\ toast = NoToast
    /\ auto = NoAuto
    /\ CountIdle
    /\ CacheEmpty
    /\ localStorage = [plinko_client_seed |-> null, plinko_server_seed |-> null,
                       plinko_nonce |-> null]
    /\ setItemThrows = FALSE
    /\ EngineIdle
    /\ ShaIdle
    /\ TablesIdle
    /\ PathIdle

\* a show() call
ToastShow ==
    /\ toast.shows < MaxShows
    /\ toast' = ShowToast(toast)
    /\ UNCHANGED <<auto, engineVars, sha_h, sha_k, shaVars, tableVars, pathVars,
                   countVars>>

\* the pending timer that is due first fires: show's timer calls remove(id),
\* remove's timer filters the id out of the list
ToastTimerFires ==
    /\ \E tm \in toast.timers :
          /\ tm.due <= toast.now
          /\ \A o \in toast.timers : o.due > tm.due \/ (o.due = tm.due /\ o.n >= tm.n)
          /\ toast' =
                IF tm.kind = "auto"
                THEN RemoveToast([toast EXCEPT !.timers = @ \ {tm}], tm.id)
                ELSE [toast EXCEPT !.timers = @ \ {tm},
                                   !.toasts = FilterOut(@, tm.id)]
    /\ UNCHANGED <<auto, engineVars, sha_h, sha_k, shaVars, tableVars, pathVars,
                   countVars>>

\* time passes: a millisecond after a show(), so that the next toast gets
\* another id, or up to the time the next timer is due
ClockAdvances ==
    /\ \A tm \in toast.timers : tm.due > toast.now
    /\ \E now \in (IF Len(toast.toasts) > 0 /\ toast.toasts[Len(toast.toasts)] = toast.now
                   THEN {toast.now + 1} ELSE {})
                  \cup {tm.due : tm \in toast.timers} :
          /\ \A tm \in toast.timers : tm.due >= now
          /\ toast' = [toast EXCEPT !.now = now]
    /\ UNCHANGED <<auto, engineVars, sha_h, sha_k, shaVars, tableVars, pathVars,
                   countVars>>

NextToast == ToastShow \/ ToastTimerFires \/ ClockAdvances

SpecToast == InitToast /\ [][NextToast]_vars

(* ------------------------------------------------------------------ *)
(* Reference values                                                   *)
(* ------------------------------------------------------------------ *)

\* the published SHA-256 digest of the empty text (FIPS 180-4 test vector)
DigestEmpty ==
    <<101, 51, 98, 48, 99, 52, 52, 50, 57, 56, 102, 99, 49, 99, 49, 52, 57, 97,
    102, 98, 102, 52, 99, 56, 57, 57, 54, 102, 98, 57, 50, 52, 50, 55, 97, 101, 52,
    49, 101, 52, 54, 52, 57, 98, 57, 51, 52, 99, 97, 52, 57, 53, 57, 57, 49, 98,
    55, 56, 53, 50, 98, 56, 53, 53>>

\* the published SHA-256 digest of "abc"
DigestAbc ==
    <<98, 97, 55, 56, 49, 54, 98, 102, 56, 102, 48, 49, 99, 102, 101, 97, 52, 49,
    52, 49, 52, 48, 100, 101, 53, 100, 97, 101, 50, 50, 50, 51, 98, 48, 48, 51, 54,
    49, 97, 51, 57, 54, 49, 55, 55, 97, 57, 99, 98, 52, 49, 48, 102, 102, 54, 49,
    102, 50, 48, 48, 49, 53, 97, 100>>

\* the published SHA-256 digest of the 56-character two-block text
DigestTwoBlocks ==
    <<50, 52, 56, 100, 54, 97, 54, 49, 100, 50, 48, 54, 51, 56, 98, 56, 101, 53,
    99, 48, 50, 54, 57, 51, 48, 99, 51, 101, 54, 48, 51, 57, 97, 51, 51, 99, 101,
    52, 53, 57, 54, 52, 102, 102, 50, 49, 54, 55, 102, 54, 101, 99, 101, 100, 100,
    52, 49, 57, 100, 98, 48, 54, 99, 49>>

\* SHA-256 of "ServerSeedHash...ClientSeed123:<nonce>" by nonce, from a
\* reference implementation
DigestOfDefaultRound ==
    1 :>
        <<51, 52, 100, 53, 50, 50, 55, 57, 101, 52, 54, 100, 101, 102, 53, 102, 53,
        100, 53, 101, 49, 53, 54, 101, 102, 51, 100, 57, 56, 53, 100, 51, 100, 102, 97,
        54, 57, 102, 100, 53, 51, 50, 97, 53, 48, 55, 102, 55, 101, 55, 99, 54, 57, 97,
        49, 48, 49, 55, 50, 53, 53, 57, 55, 98>> @@
    2 :>
        <<98, 100, 48, 55, 98, 99, 50, 55, 101, 50, 100, 98, 98, 49, 97, 52, 52, 56,
        97, 54, 100, 97, 102, 98, 99, 55, 52, 52, 99, 98, 55, 54, 100, 57, 57, 101, 97,
        99, 52, 98, 102, 53, 56, 102, 97, 54, 56, 98, 55, 52, 56, 101, 51, 57, 52, 51,
        56, 56, 55, 49, 53, 54, 99, 97>> @@
    3 :>
        <<55, 57, 49, 98, 52, 102, 50, 49, 52, 54, 56, 57, 48, 102, 54, 53, 50, 99, 97,
        56, 102, 52, 98, 100, 48, 52, 55, 52, 98, 48, 49, 102, 102, 55, 101, 49, 51,
        55, 98, 49, 52, 57, 55, 48, 56, 99, 54, 98, 54, 49, 101, 51, 56, 53, 54, 54,
        101, 55, 56, 56, 100, 56, 97, 100>> @@
    4 :>
        <<51, 99, 100, 57, 48, 100, 51, 99, 54, 54, 54, 50, 49, 99, 54, 48, 102, 57,
        101, 101, 55, 100, 49, 100, 99, 101, 97, 51, 56, 48, 98, 54, 53, 101, 102, 98,
        98, 50, 101, 57, 49, 55, 98, 102, 99, 57, 53, 98, 51, 53, 97, 51, 102, 51, 100,
        98, 100, 102, 49, 51, 55, 55, 57, 52>> @@
    10 :>
        <<55, 56, 55, 55, 101, 56, 56, 97, 53, 57, 55, 52, 98, 53, 50, 97, 52, 51, 50,
        52, 55, 99, 55, 97, 97, 55, 57, 55, 54, 54, 98, 50, 99, 48, 97, 50, 100, 57,
        49, 55, 97, 101, 52, 97, 49, 52, 53, 102, 49, 101, 102, 51, 48, 55, 51, 56,
        101, 57, 99, 53, 52, 49, 52, 52>> @@
    11 :>
        <<57, 100, 102, 51, 97, 97, 98, 97, 101, 98, 50, 101, 48, 99, 102, 49, 48, 98,
        53, 56, 100, 50, 97, 99, 48, 49, 51, 54, 52, 54, 56, 53, 99, 97, 100, 100, 102,
        97, 50, 53, 52, 55, 101, 53, 52, 57, 53, 54, 48, 97, 56, 102, 51, 53, 102, 53,
        57, 48, 48, 49, 53, 49, 54, 100>> @@
    12 :>
        <<57, 99, 54, 57, 97, 53, 97, 51, 49, 50, 48, 50, 98, 54, 97, 102, 98, 49, 98,
        99, 56, 52, 99, 99, 55, 97, 51, 53, 51, 55, 53, 100, 52, 99, 55, 52, 49, 48,
        57, 54, 98, 100, 51, 48, 49, 55, 52, 55, 50, 54, 49, 102, 55, 100, 49, 51, 55,
        50, 48, 98, 50, 102, 57, 57>> @@
    13 :>
        <<50, 57, 98, 49, 57, 98, 57, 101, 49, 49, 101, 50, 48, 57, 100, 101, 56, 97,
        48, 53, 54, 49, 52, 52, 48, 99, 52, 48, 97, 56, 48, 100, 53, 49, 54, 52, 56,
        48, 99, 48, 48, 53, 102, 99, 50, 55, 54, 54, 49, 57, 100, 53, 54, 48, 50, 51,
        56, 101, 102, 52, 48, 49, 52, 99>>

\* SHA-256 of the bytes 'k', '1', 0xE9, ':' and the decimal nonce, by nonce,
\* from a reference implementation
DigestOfStoredRound ==
    1 :>
        <<49, 101, 54, 101, 97, 50, 101, 53, 53, 53, 48, 97, 55, 50, 57, 52, 57, 53, 49,
        54, 98, 48, 97, 50, 50, 54, 52, 102, 102, 97, 57, 97, 54, 53, 50, 48, 56, 51,
        98, 48, 99, 99, 99, 52, 52, 52, 48, 102, 48, 52, 53, 48, 51, 99, 53, 50, 98,
        54, 49, 51, 57, 102, 48, 55>> @@
    2 :>
        <<102, 97, 102, 52, 49, 48, 48, 98, 53, 49, 102, 56, 98, 48, 55, 50, 50, 57, 56,
        100, 49, 98, 102, 52, 101, 52, 55, 56, 53, 53, 54, 57, 51, 100, 54, 53, 54,
        53, 52, 54, 55, 50, 53, 50, 50, 98, 55, 52, 56, 53, 53, 54, 54, 56, 51, 101,
        100, 49, 55, 52, 100, 101, 53, 100>> @@
    3 :>
        <<55, 55, 51, 53, 98, 102, 54, 99, 57, 99, 48, 101, 50, 48, 98, 99, 52, 53, 53,
        48, 51, 97, 49, 99, 52, 54, 48, 51, 48, 55, 50, 48, 52, 48, 98, 51, 48, 48,
        56, 57, 57, 49, 56, 99, 100, 53, 97, 56, 100, 54, 100, 100, 53, 102, 100, 53,
        48, 50, 50, 53, 102, 49, 57, 101>> @@
    4 :>
        <<97, 52, 52, 97, 51, 98, 52, 52, 97, 102, 101, 99, 97, 57, 55, 49, 54, 54, 55,
        99, 50, 102, 55, 97, 100, 57, 101, 56, 55, 100, 53, 97, 101, 48, 53, 52, 50,
        55, 102, 55, 100, 54, 53, 52, 102, 99, 102, 56, 50, 56, 102, 56, 100, 56, 102,
        50, 48, 48, 51, 48, 54, 99, 50, 50>> @@
    10 :>
        <<54, 49, 55, 53, 98, 57, 98, 52, 99, 52, 57, 100, 102, 57, 52, 56, 50, 49, 99,
        57, 48, 101, 101, 54, 54, 53, 102, 100, 57, 97, 97, 53, 48, 97, 98, 54, 99,
        56, 56, 49, 52, 53, 98, 102, 100, 52, 54, 100, 51, 54, 99, 99, 97, 98, 52, 50,
        48, 98, 99, 53, 53, 50, 100, 98>> @@
    11 :>
        <<55, 50, 57, 99, 49, 54, 100, 97, 52, 53, 48, 98, 55, 49, 52, 102, 53, 53, 98,
        101, 56, 52, 98, 50, 55, 57, 102, 52, 56, 48, 51, 99, 53, 97, 97, 48, 51, 100,
        97, 54, 51, 101, 101, 49, 51, 101, 48, 56, 56, 101, 102, 54, 97, 55, 51, 52,
        52, 101, 55, 55, 54, 54, 97, 50>> @@
    12 :>
        <<51, 51, 100, 56, 49, 52, 99, 52, 98, 55, 48, 51, 102, 99, 55, 56, 49, 97, 53,
        97, 48, 98, 51, 98, 101, 54, 49, 101, 57, 101, 49, 51, 53, 55, 57, 100, 49,
        99, 97, 50, 100, 98, 55, 55, 50, 56, 101, 100, 101, 50, 100, 56, 99, 99, 50,
        51, 48, 98, 98, 102, 57, 55, 57, 48>> @@
    13 :>
        <<56, 97, 50, 50, 53, 48, 51, 100, 99, 50, 100, 50, 102, 99, 101, 99, 99, 52,
        48, 54, 99, 101, 101, 98, 101, 52, 101, 51, 102, 55, 101, 53, 100, 48, 53, 50,
        54, 51, 53, 54, 53, 57, 52, 51, 48, 50, 48, 49, 101, 97, 102, 52, 57, 52, 54,
        98, 50, 50, 56, 54, 56, 51, 99, 56>>

(* ------------------------------------------------------------------ *)
(* GameLogic.createLevel                                              *)
(* ------------------------------------------------------------------ *)

\* const bucketCount = rows + 1: the landing buckets the board builds
bucketCount(rows) == rows + 1

(* ------------------------------------------------------------------ *)
(* Properties                                                         *)
(* ------------------------------------------------------------------ *)

\* page e's last generateOutcome call returned an outcome
Returned(e) == last[e].kind = "returned"

\* the characters 0-9 and a-f
HexChars == (48..57) \cup (97..102)

\* C1 (as stated): the nonces one FairGameEngine instance returns over its
\* sequential generateOutcome calls rise by exactly one from each to the
\* next, with no gap and no repeat.
C1_NoGaps ==
    \A e \in Engines :
        \A i \in 1..(Len(last[e].returnedNonces) - 1) :
            last[e].returnedNonces[i + 1] = last[e].returnedNonces[i] + 1

\* C1: on one FairGameEngine instance every generateOutcome call, whether it
\* returns or throws, advances the instance's nonce by exactly one; a call
\* that returns gives the advanced nonce, so a returning call that directly
\* follows a returning call gives the next nonce; and the first call of an
\* instance constructed with no persisted nonce, if it returns, returns 1.
C1_NonceSteps ==
    [][\A e \in Engines :
          (last'[e] # last[e] /\ last'[e].kind # "none") =>
              /\ engine'[e].nonce = engine[e].nonce + 1
              /\ last'[e].before = engine[e].nonce
              /\ (last'[e].kind = "returned" =>
                     /\ last'[e].out.nonce = engine'[e].nonce
                     /\ (last[e].kind = "returned" =>
                            last'[e].out.nonce = last[e].out.nonce + 1)
                     /\ (last[e].kind = "none" /\ last[e].stored = null =>
                            last'[e].out.nonce = 1))]_vars

\* one instance, constructed with no persisted nonce, has returned from three
\* calls in a row, the last with nonce 3
C1_Witness ==
    \E e \in Engines :
        /\ Returned(e) /\ last[e].returnedNonces = <<1, 2, 3>>
        /\ calls = 3
        /\ \A o \in Engines \ {e} : ~engine[o].constructed

\* C2: two pages whose engines were constructed from the same storage never
\* return outcomes that carry the same nonce for the same serverSeed and
\* clientSeed.
C2_NoNonceReuse ==
    \A e1, e2 \in Engines :
        (/\ e1 # e2 /\ Returned(e1) /\ Returned(e2)
         /\ engine[e1].serverSeed = engine[e2].serverSeed
         /\ engine[e1].clientSeed = engine[e2].clientSeed)
        => last[e1].out.nonce # last[e2].out.nonce

\* C3: two engines holding the same serverSeed, clientSeed and pre-call nonce,
\* called with the same rows, return the same hash, path and slotIndex,
\* whatever sha256 was called with before; and once the tables sha256.h and
\* sha256.k are filled no call alters them.
C3_Deterministic ==
    /\ [](\A e1, e2 \in Engines :
            (/\ Returned(e1) /\ Returned(e2)
             /\ engine[e1].serverSeed = engine[e2].serverSeed
             /\ engine[e1].clientSeed = engine[e2].clientSeed
             /\ last[e1].before = last[e2].before
             /\ last[e1].rows = last[e2].rows)
            => /\ last[e1].out.hash = last[e2].out.hash
               /\ last[e1].out.path = last[e2].out.path
               /\ last[e1].out.slotIndex = last[e2].out.slotIndex)
    /\ [][Len(sha_k) >= 64 => sha_h' = sha_h /\ sha_k' = sha_k]_vars

\* two pages have returned 16-row outcomes from the same seeds and pre-call
\* nonce, the first computed with empty tables and the second with the
\* tables the first call left
C3_Witness ==
    \E e1, e2 \in Engines :
        /\ e1 # e2 /\ Returned(e1) /\ Returned(e2)
        /\ engine[e1].serverSeed = engine[e2].serverSeed
        /\ engine[e1].clientSeed = engine[e2].clientSeed
        /\ last[e1].before = last[e2].before
        /\ last[e1].rows = 16 /\ last[e2].rows = 16
        /\ last[e1].out.hash # undefined
        /\ calls = 2

\* C4: the text generateOutcome hashes is serverSeed, then clientSeed, then
\* ':' and the decimal text of the nonce after the increment; the nonce
\* returned is that nonce; and the hash returned is the SHA-256 digest of
\* that text, here compared with reference digests for both seed pairs.
C4_HashedMessage ==
    \A e \in Engines :
        Returned(e) =>
            LET n == last[e].out.nonce
                seeds == <<engine[e].serverSeed, engine[e].clientSeed>>
            IN /\ n = last[e].before + 1
               /\ last[e].hashed =
                      ((seeds[1] \o seeds[2]) \o <<58>>) \o ToDecimal(n)
               /\ (seeds = <<DefaultServerSeed, DefaultClientSeed>>
                       /\ n \in DOMAIN DigestOfDefaultRound
                   => last[e].out.hash = DigestOfDefaultRound[n])
               /\ (seeds = <<(<<107, 49>>), (<<233>>)>>
                       /\ n \in DOMAIN DigestOfStoredRound
                   => last[e].out.hash = DigestOfStoredRound[n])

\* an engine with the default seeds, started from the persisted nonce 9, has
\* returned nonce 10 with the reference digest of its message
C4_Witness ==
    \E e \in Engines :
        /\ Returned(e) /\ last[e].out.nonce = 10
        /\ engine[e].serverSeed = DefaultServerSeed
        /\ engine[e].clientSeed = DefaultClientSeed
        /\ last[e].out.hash = DigestOfDefaultRound[10]

\* C5: whatever rows >= 0 and digest, the returned path has exactly rows
\* entries, each 0 or 1, and slotIndex is the number of 1 entries, so it lies
\* between 0 and rows.
C5_PathSum ==
    \A e \in Engines :
        Returned(e) =>
            LET out == last[e].out
                rows == last[e].rows
            IN /\ Len(out.path) = rows
               /\ \A i \in 1..rows : out.path[i] \in {0, 1}
               /\ out.slotIndex = Cardinality({i \in 1..rows : out.path[i] = 1})
               /\ 0 <= out.slotIndex /\ out.slotIndex <= rows

\* a 16-row outcome with steps in both directions has been returned
C5_Witness ==
    \E e \in Engines :
        /\ Returned(e) /\ last[e].rows = 16
        /\ 0 < last[e].out.slotIndex /\ last[e].out.slotIndex < 16
        /\ last[e].out.hash # undefined

\* C6: PayTables has an entry for every rows in 8..16 and every risk in low,
\* normal, high, each with exactly rows + 1 multipliers, so calculateRTP
\* reports no length mismatch for any of them.
C6_TableCardinality ==
    /\ \A rows \in SupportedRows, risk \in RiskLevels :
          /\ rows \in DOMAIN PayTables
          /\ risk \in DOMAIN PayTables[rows]
          /\ Len(PayTables[rows][risk]) = rows + 1
    /\ (rtpCall.done => ~rtpCall.result.mismatch)
    /\ Len(console) \in {0, Cardinality(SupportedRows) * Cardinality(RiskLevels)}

\* calculateRTP(16, 'high') has run and found table and probabilities of
\* equal length
C6_Witness ==
    /\ rtpCall.done /\ rtpCall.rows = 16 /\ rtpCall.risk = "high"
    /\ ~rtpCall.result.mismatch
    /\ Len(PayTables[16].high) = 17

\* C7: for every rows in 8..16 and every risk, the slotIndex generateOutcome
\* returns for a digest is an index of PayTables[rows][risk]: the table has
\* rows + 1 multipliers, as many as the board builds buckets, and slotIndex
\* is one of 0..rows.
C7_SlotInTable ==
    \A e \in Engines :
        (Returned(e) /\ last[e].out.hash # undefined) =>
            \A rows \in SupportedRows, risk \in RiskLevels :
                LET slotIndex == IF rows = last[e].rows
                                 THEN last[e].out.slotIndex
                                 ELSE Outcome(last[e].out.hash, rows, 0).slotIndex
                    table == PayTables[rows][risk]
                IN /\ slotIndex + 1 \in DOMAIN table
                   /\ Len(table) = bucketCount(rows)

\* an 8-row outcome has landed in a slot away from both edges
C7_Witness ==
    \E e \in Engines :
        /\ Returned(e) /\ last[e].rows = 8 /\ last[e].out.hash # undefined
        /\ last[e].out.slotIndex \in 1..7
        /\ last[e].out.slotIndex + 1 \in DOMAIN PayTables[8].high

\* C8: for every rows in 8..16 and every risk the expected return of the
\* shipped table, as calculateRTP computes it, is at most 99 percent, and
\* validateAllTables logs no combination as HIGH.
C8_FairnessCeiling ==
    /\ (rtpCall.done => rtpCall.result.num <= 99 * rtpCall.result.den)
    /\ \A i \in 1..Len(console) : console[i].status = "OK"

\* C9: sha256 returns the published digest for the empty text, for "abc" and
\* for the 56-character text that takes two blocks.
C9_KnownVectors ==
    shaCalls > 0 =>
        /\ (ascii = <<>> => digest = DigestEmpty)
        /\ (ascii = TextAbc => digest = DigestAbc)
        /\ (ascii = TextTwoBlocks => digest = DigestTwoBlocks)

\* the two-block text has been hashed, by a call that found the tables filled
C9_Witness ==
    shaCalls = 2 /\ ascii = TextTwoBlocks /\ digest = DigestTwoBlocks

\* C10: for a text whose character codes are all at most 0xFF, sha256 returns
\* exactly 64 characters, each one of 0-9 and a-f: two digits per byte.
C10_HexDigest ==
    (shaCalls > 0 /\ \A i \in 1..Len(ascii) : ascii[i] <= 255) =>
        /\ Len(digest) = 64
        /\ \A i \in 1..Len(digest) : digest[i] \in HexChars

\* a text with a character 0xFF has been hashed to 64 hex characters of which
\* one byte is below 16 (its first digit is the padding 0)
C10_Witness ==
    /\ shaCalls > 0 /\ Len(digest) = 64
    /\ \E i \in 1..Len(ascii) : ascii[i] = 255
    /\ \E n \in 0..31 : digest[2 * n + 1] = 48
    /\ \A i \in 1..64 : digest[i] \in HexChars

\* page e takes a step of new FairGameEngine()
ConstructStep(e) ==
    calls' = calls /\ <<engine'[e], last'[e]>> # <<engine[e], last[e]>>

\* page e takes a step of generateOutcome that returns an outcome
ReturnStep(e) == calls' = calls + 1 /\ last'[e] # last[e] /\ last'[e].kind = "returned"

PersistedNonce(storage) == OrZero(parseInt(storage.plinko_nonce, 10))

\* C12: through generateOutcome calls, constructions and StorageManager.reset()
\* the persisted nonce never decreases, and a newly constructed engine never
\* starts below a nonce already returned for its seed pair.
C12_NeverRolledBack ==
    [][/\ PersistedNonce(localStorage') >= PersistedNonce(localStorage)
       /\ \A e \in Engines :
             ConstructStep(e) =>
                 \A used \in issued :
                     (used[1] = engine'[e].serverSeed /\ used[2] = engine'[e].clientSeed)
                     => engine'[e].nonce >= used[3]]_vars

\* page e takes a step of generateOutcome
CallStep(e) == calls' = calls + 1 /\ engine'[e] # engine[e]

\* C13: when localStorage.setItem throws, generateOutcome returns nothing:
\* the call ends with the exception, sha256 is not called, and no hash, path
\* or slotIndex exists for the nonce the call consumed.
C13_NoRoundWithoutWrite ==
    [][\A e \in Engines :
          (CallStep(e) /\ setItemThrows) =>
              /\ last'[e].kind = "threw" /\ last'[e].at = "setItem"
              /\ DOMAIN last'[e] \cap {"out", "hashed"} = {}
              /\ issued' = issued
              /\ sha_h' = sha_h /\ sha_k' = sha_k
              /\ localStorage' = localStorage]_vars

\* a call has ended at the throwing setItem: the engine's nonce has advanced,
\* storage has not, and nothing was returned
C13_Witness ==
    \E e \in Engines :
        /\ setItemThrows
        /\ last[e].kind = "threw" /\ last[e].at = "setItem"
        /\ engine[e].nonce = last[e].before + 1
        /\ PersistedNonce(localStorage) = last[e].before
        /\ issued = {}

\* page e takes a step of generateOutcome that ends with an exception
ThrowStep(e) == CallStep(e) /\ last'[e].kind = "threw"

\* C14 (as stated): when generateOutcome fails after the increment, the
\* in-memory nonce and the persisted nonce are both one greater than before
\* the call.
C14_BothAdvance ==
    [][\A e \in Engines :
          ThrowStep(e) =>
              /\ engine'[e].nonce = engine[e].nonce + 1
              /\ PersistedNonce(localStorage') = PersistedNonce(localStorage) + 1]_vars

\* C14: a failed round still consumes a nonce.  A call that throws leaves the
\* in-memory nonce one greater than before; when it throws in the path
\* mapping (no digest, rows > 0) the persisted nonce equals that new nonce,
\* and when setItem itself throws storage is unchanged; the next call of the
\* instance works with a strictly larger nonce.
C14_FailedRoundConsumes ==
    [][\A e \in Engines :
          /\ ThrowStep(e) =>
                /\ engine'[e].nonce = engine[e].nonce + 1
                /\ (last'[e].at = "hash.length" =>
                       /\ HasWideChar(last'[e].hashed) /\ last'[e].rows > 0
                       /\ localStorage'.plinko_nonce = ToDecimal(engine[e].nonce + 1))
                /\ (last'[e].at = "setItem" => localStorage' = localStorage)
          /\ (CallStep(e) /\ last[e].kind = "threw") =>
                /\ last'[e].before = last[e].before + 1
                /\ engine'[e].nonce > engine[e].nonce]_vars

\* an engine whose client seed has a character above 0xFF has thrown in two
\* calls running: the second worked with nonce 2, which is now persisted
C14_Witness ==
    \E e \in Engines :
        /\ last[e].kind = "threw" /\ last[e].at = "hash.length"
        /\ last[e].before = 1 /\ engine[e].nonce = 2
        /\ localStorage.plinko_nonce = ToDecimal(2)
        /\ last[e].returnedNonces = <<>>

\* C15 (as stated): generateOutcome(0) never errors: it returns an empty path
\* and slotIndex 0 and advances the nonce by one.
C15_ZeroRowsNeverErrors ==
    [][\A e \in Engines :
          (CallStep(e) /\ last'[e].rows = 0) =>
              /\ last'[e].kind = "returned"
              /\ last'[e].out.path = <<>> /\ last'[e].out.slotIndex = 0
              /\ engine'[e].nonce = engine[e].nonce + 1]_vars

\* C15: generateOutcome(0) advances the nonce by one and throws only when
\* localStorage.setItem throws; otherwise, for every seed state, also one for
\* which sha256 gives no digest, it returns an empty path and slotIndex 0.
C15_ZeroRows ==
    [][\A e \in Engines :
          (CallStep(e) /\ last'[e].rows = 0) =>
              /\ engine'[e].nonce = engine[e].nonce + 1
              /\ (last'[e].kind = "threw" <=> setItemThrows)
              /\ (last'[e].kind = "threw" => last'[e].at = "setItem")
              /\ (last'[e].kind = "returned" =>
                     /\ last'[e].out.path = <<>> /\ last'[e].out.slotIndex = 0
                     /\ last'[e].out.nonce = engine'[e].nonce)]_vars

\* generateOutcome(0) has returned an empty path and slotIndex 0 on an engine
\* whose client seed has a character above 0xFF, with no digest
C15_Witness ==
    \E e \in Engines :
        /\ Returned(e) /\ last[e].rows = 0
        /\ engine[e].clientSeed = WideSeed
        /\ last[e].out.hash = undefined
        /\ last[e].out.path = <<>> /\ last[e].out.slotIndex = 0
        /\ last[e].out.nonce = last[e].before + 1

\* C16: a PayTables entry whose multiplier count differs from rows + 1 is
\* never reported by validateAllTables with status OK.
C16_MalformedNeverOK ==
    \A i \in 1..Len(console) :
        Len(payTables[console[i].rows][console[i].risk]) # console[i].rows + 1
        => console[i].status # "OK"

\* the 27 combinations in the order validateAllTables visits them
Combinations == {<<r, risk>> : r \in SupportedRows, risk \in RiskLevels}

\* C17: validateAllTables logs one line for each of the 27 combinations of
\* rows 8..16 and low, normal, high, each exactly once, with status HIGH
\* exactly when the combination's RTP exceeds 99 and OK otherwise; lines
\* over the ceiling are followed by the lines of the remaining combinations.
C17_ValidatesAll ==
    console # <<>> =>
        /\ Len(console) = 27
        /\ \A c \in Combinations :
              Cardinality({i \in 1..Len(console) :
                              console[i].rows = c[1] /\ console[i].risk = c[2]}) = 1
        /\ \A i \in 1..Len(console) :
              LET rtp == calculateRTP(console[i].rows, console[i].risk)
              IN /\ console[i].rtp = rtp
                 /\ console[i].status \in {"OK", "HIGH"}
                 /\ (console[i].status = "HIGH" <=> rtp.num > 99 * rtp.den)

\* validateAllTables has logged 27 lines of which the third (8 rows, high) is
\* HIGH and the last (16 rows, high) is OK
C17_Witness ==
    /\ Len(console) = 27
    /\ console[3].rows = 8 /\ console[3].risk = "high" /\ console[3].status = "HIGH"
    /\ console[27].rows = 16 /\ console[27].risk = "high" /\ console[27].status = "OK"

C19_PersistBeforeHash ==
    \A e \in Engines :
        "hashed" \in DOMAIN last[e] =>
            /\ last[e].atHash = ToDecimal(last[e].before + 1)
            /\ last[e].hashed =
                   ((engine[e].serverSeed \o engine[e].clientSeed) \o <<58>>)
                       \o last[e].atHash

\* a call that found 9 in storage at construction hashed a message with
\* nonce 10 while storage already held "10", and returned it
C19_Witness ==
    \E e \in Engines :
        /\ Returned(e) /\ last[e].stored = ToDecimal(9)
        /\ last[e].atHash = <<49, 48>>
        /\ last[e].out.nonce = 10

\* the value of a hexadecimal digit character 0-9, a-f
HexValue(c) == IF c \in 48..57 THEN c - 48 ELSE c - 87

\* byte n (0-based) of a digest given as 64 hexadecimal characters
DigestByte(hash, n) == 16 * HexValue(hash[2 * n + 1]) + HexValue(hash[2 * n + 2])

C21_BinomialSlots ==
    /\ \A k \in 1..(tally.rows + 1) : tally.counts[k] <= getPascalRow(tally.rows)[k]
    /\ (tally.rows > 0 /\ tally.next = P2(tally.rows)) =>
          tally.counts = getPascalRow(tally.rows)

\* all 2^8 combinations of 8 rows counted: 70 of them in the middle slot
C21_Witness ==
    /\ tally.rows = 8 /\ tally.next = 256
    /\ tally.counts[5] = 70 /\ tally.counts[1] = 1

\* row n of Pascal's triangle by addition: each entry the sum of the two above
RECURSIVE TriangleRow(_)
TriangleRow(n) ==
    IF n = 0 THEN <<1>>
    ELSE LET above == TriangleRow(n - 1)
         IN [k \in 1..(n + 1) |->
                (IF k > 1 THEN above[k - 1] ELSE 0) + (IF k <= n THEN above[k] ELSE 0)]

RECURSIVE SumOf(_, _)
\* the sum of the first n entries of a sequence
SumOf(s, n) == IF n = 0 THEN 0 ELSE SumOf(s, n - 1) + s[n]

\* C22: for every n in 0..16 every division of the recurrence is exact, the
\* entries pushed so far are the binomial coefficients C(n,0..k), the row
\* returned has n + 1 entries summing to 2^n, it is what getPascalRow(n)
\* gives, and the probabilities sum to 1.
C22_PascalRow ==
    /\ pascal.exact
    /\ pascal.pc # "idle" =>
          /\ Len(pascal.line) = pascal.k + 1
          /\ pascal.line = SubSeq(TriangleRow(pascal.rows), 1, pascal.k + 1)
    /\ pascal.pc \in {"row", "probabilities"} =>
          /\ Len(pascal.line) = pascal.rows + 1
          /\ pascal.line = getPascalRow(pascal.rows)
          /\ SumOf(pascal.line, Len(pascal.line)) = P2(pascal.rows)
    /\ pascal.pc = "probabilities" =>
          /\ Len(pascal.probs.num) = pascal.rows + 1
          /\ SumOf(pascal.probs.num, pascal.rows + 1) = pascal.probs.den
          /\ pascal.probs = getProbabilities(pascal.rows)

\* getProbabilities(16) has returned: 17 entries, C(16,8) = 12870 in the middle
C22_Witness ==
    /\ pascal.pc = "probabilities" /\ pascal.rows = 16
    /\ pascal.probs.num[9] = 12870 /\ pascal.probs.den = 65536

\* C23: every payout table is symmetric about its centre: for every rows in
\* 8..16, every risk and every i in 0..rows, the multiplier of slot i is the
\* multiplier of slot rows - i, in the tables the ProbabilityEngine reads.
C23_Symmetric ==
    \A rows \in SupportedRows, risk \in RiskLevels :
        \A i \in 0..rows :
            payTables[rows][risk][i + 1] = payTables[rows][risk][(rows - i) + 1]

\* calculateRTP(15, 'normal') has read its table, whose two ends pay 88 and
\* whose two middle slots pay 0.3
C23_Witness ==
    /\ rtpCall.done /\ rtpCall.rows = 15 /\ rtpCall.risk = "normal"
    /\ payTables[15].normal[1] = 880 /\ payTables[15].normal[16] = 880
    /\ payTables[15].normal[8] = 3 /\ payTables[15].normal[9] = 3

\* C24: the hash generateOutcome returns is
\* CryptoEngine.hmacSha256(serverSeed, clientSeed + nonce) for the nonce it
\* returns, as step 1 of its documented algorithm says.
C24_DocumentedHmac ==
    \A e \in Engines :
        Returned(e) =>
            last[e].out.hash =
                hmacSha256(sha_h, sha_k, engine[e].serverSeed,
                           engine[e].clientSeed \o ToDecimal(last[e].out.nonce))

\* C25: no shipped table returns more than the stake in expectation: for
\* every rows in 8..16 and every risk the sum of multiplier[i] * C(rows,i) is
\* at most 2^rows (multipliers in tenths: at most 10 * 2^rows), so calculateRTP
\* returns at most 100.
C25_NotOverStake ==
    /\ \A rows \in SupportedRows, risk \in RiskLevels :
          ExpectedValue(payTables[rows][risk], getPascalRow(rows),
                        Len(payTables[rows][risk])) <= 10 * P2(rows)
    /\ (rtpCall.done => rtpCall.result.num <= 100 * rtpCall.result.den)

\* C26: two rounds with different (serverSeed, clientSeed, nonce) never hash
\* the same text serverSeed + clientSeed + ':' + nonce.
C26_MessageIdentifiesRound ==
    (rounds.texts # <<>> /\ rounds.first # rounds.second) =>
        rounds.texts[1] # rounds.texts[2]

\* C27: a generateOutcome call, whether it returns or throws, changes only
\* the nonce: the engine keeps its clientSeed and serverSeed, the other
\* page's engine is untouched, the storage keys plinko_client_seed and
\* plinko_server_seed keep their values, and no key is added or removed.
C27_OnlyNonce ==
    [][\A e \in Engines :
          CallStep(e) =>
              /\ engine'[e].clientSeed = engine[e].clientSeed
              /\ engine'[e].serverSeed = engine[e].serverSeed
              /\ engine'[e].constructed = engine[e].constructed
              /\ \A o \in Engines \ {e} : engine'[o] = engine[o]
              /\ DOMAIN localStorage' = DOMAIN localStorage
              /\ localStorage'.plinko_client_seed = localStorage.plinko_client_seed
              /\ localStorage'.plinko_server_seed = localStorage.plinko_server_seed]_vars

\* a call has written nonce 10 and returned, and the stored client seed and
\* the engine's seeds are what they were
C27_Witness ==
    \E e \in Engines :
        /\ Returned(e) /\ last[e].out.nonce = 10
        /\ localStorage.plinko_nonce = ToDecimal(10)
        /\ localStorage.plinko_client_seed = WideSeed
        /\ localStorage.plinko_server_seed = null
        /\ engine[e].clientSeed = WideSeed
        /\ engine[e].serverSeed = DefaultServerSeed

\* C28: with one engine alive at a time and no storage reset, through calls
\* that return, calls that throw at a failing setItem or for want of a digest,
\* retries and restarts from storage, a call never returns a nonce that an
\* earlier call, of this or an earlier engine, has returned: every returned
\* nonce is greater than all returned before.
C28_SingleWriterNoReuse ==
    [][\A e \in Engines :
          ReturnStep(e) =>
              /\ \A t \in issued : t[3] < last'[e].out.nonce
              /\ Cardinality(issued') = Cardinality(issued) + 1]_vars

\* nonce 10 was returned, a later call failed at a throwing setItem, the page
\* was reloaded, and the next successful call has returned nonce 11
C28_Witness ==
    \E e \in Engines :
        /\ calls = 3
        /\ {t[3] : t \in issued} = {10, 11}
        /\ Returned(e) /\ last[e].out.nonce = 11
        /\ last[e].returnedNonces = <<11>>
        /\ last[e].stored = ToDecimal(10)

\* C29: in a run started with totalBets = N > 0 placeBet is called at most N
\* times; a run in which no placeBet failed, no stop limit was reached and
\* stop() was not called from outside ends only at the bet limit, where
\* placeBet has been called exactly N times, active is false and no timer is
\* pending; and every such run does end.
C29_AutoBetLimit ==
    /\ [](auto.totalBets > 0 =>
            /\ auto.placed <= auto.totalBets
            /\ auto.betsCount <= auto.totalBets
            /\ (auto.ended = "Limit reached: Total Bets" =>
                    /\ ~auto.active
                    /\ auto.placed = auto.totalBets
                    /\ auto.pending = {})
            /\ (auto.active => auto.pending = {auto.timer} /\ auto.ended = "")
            /\ (~auto.active => auto.pending = {} /\ (auto.runs > 0 => auto.ended # "")))
    /\ ((auto.active /\ auto.totalBets > 0) ~> ~auto.active)

\* a run of three bets has ended at the bet limit after three placeBet calls
C29_Witness ==
    /\ ~auto.active /\ auto.totalBets = 3 /\ auto.placed = 3
    /\ auto.ended = "Limit reached: Total Bets" /\ auto.pending = {}

\* C30: after any sequence of show() calls and timer firings the toasts list
\* of the ToastManager holds at most UI_CONFIG.notifications.maxCount (5)
\* entries.
C30_ToastLimit == Len(toast.toasts) <= maxCount

====
